---- MODULE Spec2Model ----
(***************************************************************************)
(* State-machine model of the cortex-tutor persistence layer               *)
(* (packages/cortex-tutor/sqlite_store.py) and of the deterministic tools  *)
(* that drive it (packages/cortex-tutor/tools.py).                         *)
(*                                                                         *)
(* Tables are modelled as collections of rows, not as functions of their   *)
(* key, so that uniqueness of a key is a property of the operations.       *)
(* Scores are REAL in the schema; the model writes them in tenths          *)
(* (0.5 is 5, 1.0 is 10).                                                  *)
(***************************************************************************)
EXTENDS Integers, Sequences, FiniteSets, TLC

\* ---------------------------------------------------------------- bounds
NumThreads == 2
MaxId == 3
MaxTotal == 1
MaxHours == 1
TicksPerSecond == 2

\* ------------------------------------------------------- program constants
DefaultScore == 10
DefaultNewScore == 0
DefaultTotalTime == 0
SecondsPerHour == 3600

\* Optional values: Python's None is the empty sequence, a value v is <<v>>
None == <<>>
Some(v) == <<v>>
Get(o) == o[1]
NoThread == 0

\* `if package_name:` / `not topic`: None and the empty string are falsy
Truthy(arg) == arg # None /\ Get(arg) # ""
Threads == 1..NumThreads

Packages == {"docker", "git"}
Topics == {"basics"}
Scores == {0, 5, 10}
ScoreArgs == {None, Some(5)}
TimeValues == {-1, 1}
TimeArgs == {None} \cup {Some(v) : v \in TimeValues}
CompletedArgs == {None, Some(TRUE), Some(FALSE)}
PackageArgs == {None} \cup {Some(p) : p \in Packages}
TopicArgs == {None} \cup {Some(p) : p \in Topics}

VARIABLES
    progress,   \* learning_progress: set of rows (id is the primary key)
    seq,        \* sqlite_sequence entry of learning_progress (AUTOINCREMENT)
    cache,      \* lesson_cache: sequence of rows in rowid order
    clock,      \* the system clock, in ticks
    lock,       \* SQLiteStore._lock: owner thread and re-entrancy depth
    profile,    \* student_profile: sequence of rows in rowid order
    quiz,       \* quiz_results: sequence of rows in rowid order
    loader_lock, \* _lock of the SQLiteStore that LessonLoaderTool builds
    teach,      \* per thread: where it is in TutorAgent.teach, and its result
    pc,         \* per thread: where it is in the operation it runs
    frame,      \* per thread: arguments and locals of its current/last call
    ret         \* per thread: result of its last completed call

vars == <<progress, seq, cache, clock, lock, profile, quiz, loader_lock,
          teach, pc, frame, ret>>
progressVars == <<progress, seq>>
cacheVars == <<cache>>
profileVars == <<profile>>

\* ------------------------------------------------------------ timestamps
TicksPerHour == SecondsPerHour * TicksPerSecond
Clock0 == 23 * TicksPerHour

RECURSIVE Pow10(_)
Pow10(n) == IF n = 0 THEN 1 ELSE 10 * Pow10(n - 1)

\* n as `width` decimal digits (character codes), most significant first
Digits(n, width) == [i \in 1..width |-> 48 + ((n \div Pow10(width - i)) % 10)]

\* datetime.isoformat() of an aware UTC datetime: "DDTHH:MM:SS[.ffffff]+00:00".
\* The fraction is left out when the microsecond field is 0.  The year and
\* month are the same for every time within the bounds and are left out.
IsoFormat(t) ==
    LET day == (t \div (24 * TicksPerHour)) + 1
        hh == (t \div TicksPerHour) % 24
        mm == (t \div (60 * TicksPerSecond)) % 60
        ss == (t \div TicksPerSecond) % 60
        us == (t % TicksPerSecond) * (1000000 \div TicksPerSecond)
    IN  Digits(day, 2) \o <<84>> \o Digits(hh, 2) \o <<58>> \o Digits(mm, 2)
          \o <<58>> \o Digits(ss, 2)
          \o (IF us = 0 THEN <<>> ELSE <<46>> \o Digits(us, 6))
          \o <<43, 48, 48, 58, 48, 48>>

\* SQLite TEXT comparison under the BINARY collation (memcmp, then length)
StrLess(a, b) ==
    \E i \in 1..(Len(a) + 1) :
        /\ i <= Len(b)
        /\ \A j \in 1..(i - 1) : a[j] = b[j]
        /\ (i = Len(a) + 1 \/ a[i] < b[i])

\* a comparison that leaves equal texts out
StrLeq_Strict(a, b) == StrLess(a, b)

StrLeq(a, b) == a = b \/ StrLess(a, b)

\* ------------------------------------------------------- LearningProgress
LearningProgress(pkg, topic, completed, score, total) ==
    [package_name |-> pkg, topic |-> topic, completed |-> completed,
     score |-> score, total_time_seconds |-> total]

RowsIn(rows, pkg, topic) ==
    {r \in rows : r.package_name = pkg /\ r.topic = topic}

RowsFor(pkg, topic) == RowsIn(progress, pkg, topic)

\* SELECT * FROM learning_progress WHERE package_name = ? AND topic = ?
\* followed by fetchone(): a matching row, or None
SelectProgress(pkg, topic) ==
    IF RowsFor(pkg, topic) = {} THEN {None}
    ELSE {Some(r) : r \in RowsFor(pkg, topic)}

NewRow(rec, id, now) ==
    [id |-> id, package_name |-> rec.package_name, topic |-> rec.topic,
     completed |-> rec.completed, score |-> rec.score,
     last_accessed |-> now, total_time_seconds |-> rec.total_time_seconds]

\* a plain INSERT, without the conflict clause
UpsertRows_BlindInsert(rec, now, id) == progress \cup {NewRow(rec, id, now)}

\* INSERT ... ON CONFLICT(package_name, topic) DO UPDATE SET ...: the table
\* after the statement, given the rowid the engine drew for the insert
UpsertRows(rec, now, id) ==
    IF RowsFor(rec.package_name, rec.topic) = {}
    THEN progress \cup {NewRow(rec, id, now)}
    ELSE {IF r \in RowsFor(rec.package_name, rec.topic)
          THEN NewRow(rec, r.id, now) ELSE r : r \in progress}

\* cursor.lastrowid on the fresh connection: the inserted rowid, 0 on UPDATE
LastRowId(rec, id) ==
    IF RowsFor(rec.package_name, rec.topic) = {} THEN id ELSE 0

\* returning cursor.lastrowid without the re-query
UpsertReturn_NoRequery(lastrowid, rows, rec) == {lastrowid}

\* the value upsert_progress returns, read in the table after the statement
UpsertReturn(lastrowid, rows, rec) ==
    IF lastrowid = 0
    THEN LET m == RowsIn(rows, rec.package_name, rec.topic)
         IN  IF m = {} THEN {0} ELSE {r.id : r \in m}
    ELSE {lastrowid}

\* SQLiteStore.mark_topic_completed builds this record and upserts it
MarkTopicCompletedRecord(pkg, topic, score) ==
    LearningProgress(pkg, topic, TRUE, score, DefaultTotalTime)

\* a merge that replaces the total by the reported time
MergedRecord_ReplaceTotal(pkg, topic, score, time_seconds, completed, existing) ==
    LearningProgress(pkg, topic,
        IF completed # None THEN Get(completed)
        ELSE IF existing # None THEN Get(existing).completed ELSE FALSE,
        IF score # None THEN Get(score)
        ELSE IF existing # None THEN Get(existing).score ELSE DefaultNewScore,
        IF time_seconds = None THEN 0 ELSE Get(time_seconds))

\* ProgressTrackerTool._update_progress: the record merged from the row read
MergedRecord(pkg, topic, score, time_seconds, completed, existing) ==
    LearningProgress(pkg, topic,
        IF completed # None THEN Get(completed)
        ELSE IF existing # None THEN Get(existing).completed ELSE FALSE,
        IF score # None THEN Get(score)
        ELSE IF existing # None THEN Get(existing).score ELSE DefaultNewScore,
        (IF existing # None THEN Get(existing).total_time_seconds ELSE 0)
          + (IF time_seconds = None \/ Get(time_seconds) = 0
             THEN 0 ELSE Get(time_seconds)))

\* DELETE FROM learning_progress [WHERE package_name = ?]
ResetDeleted(pkg) ==
    IF Truthy(pkg) THEN {r \in progress : r.package_name = Get(pkg)}
    ELSE progress

\* ------------------------------------------------------------------ lock
FreeLock == [owner |-> NoThread, depth |-> 0]

\* ------------------------------------------------------------------ init
NoFrame == [op |-> "none"]
NoRet == [op |-> "none"]
NoTeach == [phase |-> "none"]

Init ==
    /\ progress = {}
    /\ seq = 0
    /\ cache = <<>>
    /\ clock = Clock0
    /\ lock = FreeLock
    /\ profile = <<>>
    /\ quiz = <<>>
    /\ loader_lock = FreeLock
    /\ teach = [t \in Threads |-> NoTeach]
    /\ pc = [t \in Threads |-> "idle"]
    /\ frame = [t \in Threads |-> NoFrame]
    /\ ret = [t \in Threads |-> NoRet]

\* ------------------------------------------------------------------ lock
\* _get_connection: `with self._lock:`.  The RLock can be taken by a thread
\* when it is free or when that thread already owns it.  A body that makes
\* no nested call is one step: it takes the lock, runs the statements of
\* the `with` block and gives the lock back, so the lock is free again in
\* the state the step leads to.
\* a lock that keeps no thread out
CanAcquire_NoExclusion(t) == TRUE

\* a lock that its owner cannot take again (Lock in place of RLock)
CanAcquire_NotReentrant(t) == lock.owner = NoThread

CanAcquire(t) == lock.owner \in {NoThread, t}

\* ------------------------------------------------------ progress actions
UpsertOps == {"upsert_progress", "mark_completed", "update_progress"}

\* upserts that threads have started and not finished: each may draw a rowid
InFlight == Cardinality({u \in Threads : pc[u] # "idle" /\ frame[u].op \in UpsertOps})

\* SQLiteStore.upsert_progress(progress), up to the lock
CallUpsertProgress(t, rec) ==
    /\ pc[t] = "idle"
    /\ seq + InFlight < MaxId
    /\ frame' = [frame EXCEPT ![t] =
                    [op |-> "upsert_progress", rec |-> rec,
                     now |-> IsoFormat(clock)]]
    /\ pc' = [pc EXCEPT ![t] = "up_wait"]
    /\ ret' = [ret EXCEPT ![t] = NoRet]
    /\ UNCHANGED <<quiz, progressVars, cacheVars, clock, lock, profileVars, loader_lock, teach>>

\* ProgressTrackerTool._run("mark_completed", ...) -> _mark_completed ->
\* SQLiteStore.mark_topic_completed, up to the lock of upsert_progress
CallMarkCompleted(t, pkg, topic, score) ==
    /\ pc[t] = "idle"
    /\ IF ~Truthy(pkg) \/ ~Truthy(topic)
       THEN /\ ret' = [ret EXCEPT ![t] =
                         [op |-> "mark_completed", success |-> FALSE]]
            /\ frame' = [frame EXCEPT ![t] = NoFrame]
            /\ UNCHANGED pc
       ELSE /\ seq + InFlight < MaxId
            /\ LET effective_score ==
                       IF score # None THEN Get(score) ELSE DefaultScore
               IN  frame' = [frame EXCEPT ![t] =
                      [op |-> "mark_completed",
                       rec |-> MarkTopicCompletedRecord(Get(pkg), Get(topic),
                                                        effective_score),
                       now |-> IsoFormat(clock)]]
            /\ pc' = [pc EXCEPT ![t] = "up_wait"]
            /\ ret' = [ret EXCEPT ![t] = NoRet]
    /\ UNCHANGED <<quiz, progressVars, cacheVars, clock, lock, profileVars, loader_lock, teach>>

\* ProgressTrackerTool._run("update_progress", ...) -> _update_progress,
\* up to the lock of its get_progress call
BeginUpdateProgress(t, pkg, topic, score, time_seconds, completed) ==
    /\ pc[t] = "idle"
    /\ IF ~Truthy(pkg) \/ ~Truthy(topic)
       THEN /\ ret' = [ret EXCEPT ![t] =
                         [op |-> "update_progress", success |-> FALSE]]
            /\ frame' = [frame EXCEPT ![t] = NoFrame]
            /\ UNCHANGED pc
       ELSE /\ seq + InFlight < MaxId
            /\ \A r \in RowsFor(Get(pkg), Get(topic)) \cup {[total_time_seconds |-> 0]} :
                  time_seconds # None =>
                    /\ r.total_time_seconds + Get(time_seconds) <= MaxTotal
                    /\ r.total_time_seconds + Get(time_seconds) >= -1
            /\ frame' = [frame EXCEPT ![t] =
                  [op |-> "update_progress", package_name |-> Get(pkg),
                   topic |-> Get(topic), score |-> score,
                   time_seconds |-> time_seconds, completed |-> completed]]
            /\ pc' = [pc EXCEPT ![t] = "gp_wait"]
            /\ ret' = [ret EXCEPT ![t] = NoRet]
    /\ UNCHANGED <<quiz, progressVars, cacheVars, clock, lock, profileVars, loader_lock>>

\* ProgressTrackerTool._run("update_progress", ...) called on its own
CallUpdateProgress(t, pkg, topic, score, time_seconds, completed) ==
    /\ BeginUpdateProgress(t, pkg, topic, score, time_seconds, completed)
    /\ UNCHANGED teach

\* SQLiteStore.get_progress(package_name, topic), up to the lock
CallGetProgress(t, pkg, topic) ==
    /\ pc[t] = "idle"
    /\ frame' = [frame EXCEPT ![t] =
                    [op |-> "get_progress", package_name |-> pkg,
                     topic |-> topic]]
    /\ pc' = [pc EXCEPT ![t] = "gp_wait"]
    /\ ret' = [ret EXCEPT ![t] = NoRet]
    /\ UNCHANGED <<quiz, progressVars, cacheVars, clock, lock, profileVars, loader_lock, teach>>

\* ProgressTrackerTool._run("reset", ...) -> SQLiteStore.reset_progress,
\* up to the lock
CallResetProgress(t, pkg) ==
    /\ pc[t] = "idle"
    /\ frame' = [frame EXCEPT ![t] =
                    [op |-> "reset", package_name |-> pkg]]
    /\ pc' = [pc EXCEPT ![t] = "rs_wait"]
    /\ ret' = [ret EXCEPT ![t] = NoRet]
    /\ UNCHANGED <<quiz, progressVars, cacheVars, clock, lock, profileVars, loader_lock, teach>>

\* The body of get_progress, under the lock.  For get_progress itself the
\* row is returned; _update_progress goes on to merge its arguments with
\* the row and to enter upsert_progress, which reads the clock before it
\* asks for the lock again.
GetProgressBody(t) ==
    /\ pc[t] = "gp_wait"
    /\ CanAcquire(t)
    /\ \E existing \in SelectProgress(frame[t].package_name, frame[t].topic) :
         IF frame[t].op = "get_progress"
         THEN /\ ret' = [ret EXCEPT ![t] =
                           [op |-> "get_progress", row |-> existing]]
              /\ pc' = [pc EXCEPT ![t] = "idle"]
              /\ UNCHANGED frame
         ELSE /\ frame' = [frame EXCEPT ![t] =
                    [op |-> "update_progress",
                     package_name |-> frame[t].package_name,
                     topic |-> frame[t].topic, score |-> frame[t].score,
                     time_seconds |-> frame[t].time_seconds,
                     completed |-> frame[t].completed,
                     existing |-> existing,
                     rec |-> MergedRecord(frame[t].package_name,
                                frame[t].topic, frame[t].score,
                                frame[t].time_seconds, frame[t].completed,
                                existing),
                     now |-> IsoFormat(clock)]]
              /\ pc' = [pc EXCEPT ![t] = "up_wait"]
              /\ UNCHANGED ret
    /\ UNCHANGED <<quiz, progressVars, cacheVars, clock, lock, profileVars, loader_lock, teach>>

\* the arguments of a call, which the model keeps after the call returned
Arguments(f) ==
    IF f.op = "update_progress"
    THEN [op |-> f.op, package_name |-> f.package_name, topic |-> f.topic,
          score |-> f.score, time_seconds |-> f.time_seconds,
          completed |-> f.completed]
    ELSE [op |-> f.op, rec |-> f.rec]

\* what the finished upsert hands back to the caller of the operation
\* (`prior` is not part of the result: it records whether the statement
\* inserted, or rewrote a row holding the same or different field values)
UpsertResult(op, rec, prior, row_id) ==
    CASE op = "upsert_progress" ->
            [op |-> op, row_id |-> row_id, prior |-> prior]
      [] op = "mark_completed" ->
            [op |-> op, success |-> TRUE, score |-> rec.score,
             prior |-> prior]
      [] op = "update_progress" ->
            [op |-> op, success |-> TRUE, row_id |-> row_id,
             total_time_seconds |-> rec.total_time_seconds,
             prior |-> prior]

SameFields(r, rec) ==
    /\ r.completed = rec.completed
    /\ r.score = rec.score
    /\ r.total_time_seconds = rec.total_time_seconds

Prior(rec) ==
    LET old == RowsFor(rec.package_name, rec.topic)
    IN  IF old = {} THEN "inserted"
        ELSE IF \A r \in old : SameFields(r, rec) THEN "same"
        ELSE "different"

\* The body of upsert_progress under the lock: the upsert statement, the
\* commit, and the re-query of the id when lastrowid is 0.  Whether the
\* engine advances sqlite_sequence when the insert turns into an update is
\* left open.
UpsertBody(t) ==
    /\ pc[t] = "up_wait"
    /\ CanAcquire(t)
    /\ LET rec == frame[t].rec
           conflict == RowsFor(rec.package_name, rec.topic) # {}
           id == seq + 1
           rows == UpsertRows(rec, frame[t].now, id)
           lastrowid == LastRowId(rec, id)
       IN  /\ progress' = rows
           /\ seq' \in (IF conflict THEN {seq} ELSE {}) \cup {id}
           /\ \E row_id \in UpsertReturn(lastrowid, rows, rec) :
                ret' = [ret EXCEPT ![t] =
                          UpsertResult(frame[t].op, rec, Prior(rec), row_id)]
    /\ frame' = [frame EXCEPT ![t] = Arguments(frame[t])]
    /\ pc' = [pc EXCEPT ![t] = "idle"]
    /\ UNCHANGED <<quiz, cacheVars, clock, lock, profileVars, loader_lock, teach>>

\* The body of reset_progress under the lock
ResetBody(t) ==
    /\ pc[t] = "rs_wait"
    /\ CanAcquire(t)
    /\ progress' = progress \ ResetDeleted(frame[t].package_name)
    /\ ret' = [ret EXCEPT ![t] =
                 [op |-> "reset", success |-> TRUE,
                  count |-> Cardinality(ResetDeleted(frame[t].package_name))]]
    /\ pc' = [pc EXCEPT ![t] = "idle"]
    /\ UNCHANGED <<quiz, seq, cacheVars, clock, lock, profileVars, loader_lock, teach, frame>>

\* records a direct caller of upsert_progress may pass
Records ==
    {LearningProgress(p, tp, c, s, tt) :
        p \in Packages, tp \in Topics, c \in BOOLEAN, s \in {0, 5},
        tt \in {0, 1}}

\* arguments that name a package and a topic, and arguments that miss one
NamedArgs == {<<Some(p), Some(tp)>> : p \in Packages, tp \in Topics}
UnnamedArgs == (PackageArgs \X TopicArgs) \ NamedArgs

\* the named arguments the tracker is called with: the package "docker".
\* The rows of "git" are written through the store alone, and stand for the
\* rows of every other key.
TrackerArgs == {k \in NamedArgs : k[1] = Some("docker")}

\* One caller at a time: every progress operation of the store and of the
\* tracker, with every argument value
NextSeq ==
    \E t \in {1} :
        \/ \E rec \in Records : CallUpsertProgress(t, rec)
        \/ \E k \in TrackerArgs, score \in ScoreArgs :
              CallMarkCompleted(t, k[1], k[2], score)
        \/ \E k \in UnnamedArgs : CallMarkCompleted(t, k[1], k[2], None)
        \/ \E k \in TrackerArgs, score \in ScoreArgs, ts \in TimeArgs,
              c \in CompletedArgs :
              CallUpdateProgress(t, k[1], k[2], score, ts, c)
        \/ \E k \in UnnamedArgs :
              CallUpdateProgress(t, k[1], k[2], None, None, None)
        \/ \E pkg \in Packages, topic \in Topics : CallGetProgress(t, pkg, topic)
        \/ \E pkg \in PackageArgs : CallResetProgress(t, pkg)
        \/ GetProgressBody(t)
        \/ UpsertBody(t)
        \/ ResetBody(t)

Spec == Init /\ [][NextSeq]_vars

\* Several threads, each running the tracker's update_progress action once
\* on the same (package, topic) through one ProgressTrackerTool
FirstUpdateProgress(t) ==
    /\ frame[t].op = "none"
    /\ \E ts \in TimeArgs :
         CallUpdateProgress(t, Some("docker"), Some("basics"), None, ts, None)

NextConc ==
    \E t \in Threads :
        \/ FirstUpdateProgress(t)
        \/ GetProgressBody(t)
        \/ UpsertBody(t)

SpecConc == Init /\ [][NextConc]_vars

\* ------------------------------------------------------------ lesson cache
Contents == {"lessonA", "lessonB"}
TtlArgs == {-1, 0, 1}

\* the instants the clock is observed at: each full hour from Clock0 on
\* (microsecond field 0), the tick before it and the tick after it
ClockValues ==
    {Clock0 + h * TicksPerHour + d : h \in 0..MaxHours, d \in {-1, 0, 1}}

\* json.dumps(content) and json.loads(text)
JsonDumps(content) == <<"json", content>>
JsonLoads(text) == text[2]

\* (now + timedelta(hours=ttl_hours)).isoformat() with seconds for hours
ExpiresAt_Seconds(now, ttl_hours) == IsoFormat(now + ttl_hours * TicksPerSecond)

\* (now + timedelta(hours=ttl_hours)).isoformat()
ExpiresAt(now, ttl_hours) == IsoFormat(now + ttl_hours * TicksPerHour)

CacheIndexes(rows, pkg) ==
    {i \in 1..Len(rows) : rows[i].package_name = pkg}

\* a plain INSERT, without the conflict clause
CacheUpsert_BlindInsert(rows, row) == Append(rows, row)

\* INSERT INTO lesson_cache ... ON CONFLICT(package_name) DO UPDATE SET
\* content, created_at, expires_at.  The id and created_at columns are read
\* by no statement of the store and are not kept.
CacheUpsert(rows, row) ==
    IF CacheIndexes(rows, row.package_name) = {}
    THEN Append(rows, row)
    ELSE [i \in 1..Len(rows) |->
            IF i \in CacheIndexes(rows, row.package_name) THEN row
            ELSE rows[i]]

\* WHERE ... AND expires_at >= ?
Unexpired_Inclusive(row, now) == StrLeq(now, row.expires_at)

\* WHERE ... AND expires_at > ?
Unexpired(row, now) == StrLess(now, row.expires_at)

\* WHERE expires_at < ?
Expired_Strict(row, now) == StrLess(row.expires_at, now)

\* WHERE expires_at <= ?
Expired(row, now) == StrLeq(row.expires_at, now)

\* SELECT content FROM lesson_cache WHERE package_name = ? AND
\* expires_at > ?, then fetchone() and json.loads
SelectCached(pkg, now) ==
    LET hits == {i \in CacheIndexes(cache, pkg) : Unexpired(cache[i], now)}
    IN  IF hits = {} THEN {None}
        ELSE {Some(JsonLoads(cache[i].content)) : i \in hits}

\* the rows that are left in `rows` when those at the indexes `gone` are
\* deleted, in their order
RECURSIVE Remaining(_, _, _)
Remaining(rows, gone, i) ==
    IF i > Len(rows) THEN <<>>
    ELSE (IF i \in gone THEN <<>> ELSE <<rows[i]>>)
           \o Remaining(rows, gone, i + 1)

\* DELETE FROM lesson_cache WHERE expires_at <= ?: the indexes deleted
SweptIndexes(now) == {i \in 1..Len(cache) : Expired(cache[i], now)}

\* SQLiteStore.cache_lesson(package_name, content, ttl_hours), up to the
\* lock.  (written_at, ttl_hours and lesson are not columns: they record
\* the call that wrote the row.)
CallCacheLesson(t, pkg, content, ttl_hours) ==
    /\ pc[t] = "idle"
    /\ frame' = [frame EXCEPT ![t] =
          [op |-> "cache_lesson",
           row |-> [package_name |-> pkg, content |-> JsonDumps(content),
                    expires_at |-> ExpiresAt(clock, ttl_hours),
                    written_at |-> clock, ttl_hours |-> ttl_hours,
                    lesson |-> content]]]
    /\ pc' = [pc EXCEPT ![t] = "cl_wait"]
    /\ ret' = [ret EXCEPT ![t] = NoRet]
    /\ UNCHANGED <<quiz, progressVars, cacheVars, clock, lock, profileVars, loader_lock, teach>>

\* whether the row a cache write replaces could still be read at the clock
\* value the write took (not part of the result)
Replaced(row) ==
    IF CacheIndexes(cache, row.package_name) = {} THEN "none"
    ELSE IF \E i \in CacheIndexes(cache, row.package_name) :
              cache[i].written_at + cache[i].ttl_hours * TicksPerHour
                 > row.written_at
         THEN "unexpired" ELSE "expired"

\* The body of cache_lesson, under the lock
CacheLessonBody(t) ==
    /\ pc[t] = "cl_wait"
    /\ CanAcquire(t)
    /\ cache' = CacheUpsert(cache, frame[t].row)
    /\ ret' = [ret EXCEPT ![t] =
                 [op |-> "cache_lesson", replaced |-> Replaced(frame[t].row)]]
    /\ pc' = [pc EXCEPT ![t] = "idle"]
    /\ UNCHANGED <<quiz, progressVars, clock, lock, profileVars, loader_lock, teach, frame>>

\* SQLiteStore.get_cached_lesson(package_name), up to the lock
\* (read_at is the clock value behind the text `now`)
CallGetCachedLesson(t, pkg) ==
    /\ pc[t] = "idle"
    /\ frame' = [frame EXCEPT ![t] =
          [op |-> "get_cached_lesson", package_name |-> pkg,
           now |-> IsoFormat(clock), read_at |-> clock]]
    /\ pc' = [pc EXCEPT ![t] = "gc_wait"]
    /\ ret' = [ret EXCEPT ![t] = NoRet]
    /\ UNCHANGED <<quiz, progressVars, cacheVars, clock, lock, profileVars, loader_lock, teach>>

\* The body of get_cached_lesson, under the lock
GetCachedLessonBody(t) ==
    /\ pc[t] = "gc_wait"
    /\ CanAcquire(t)
    /\ \E lesson \in SelectCached(frame[t].package_name, frame[t].now) :
         ret' = [ret EXCEPT ![t] =
                   [op |-> "get_cached_lesson", lesson |-> lesson]]
    /\ pc' = [pc EXCEPT ![t] = "idle"]
    /\ UNCHANGED <<quiz, progressVars, cacheVars, clock, lock, profileVars, loader_lock, teach, frame>>

\* SQLiteStore.clear_expired_cache(), up to the lock
CallClearExpiredCache(t) ==
    /\ pc[t] = "idle"
    /\ frame' = [frame EXCEPT ![t] =
          [op |-> "clear_expired_cache", now |-> IsoFormat(clock),
           read_at |-> clock]]
    /\ pc' = [pc EXCEPT ![t] = "ce_wait"]
    /\ ret' = [ret EXCEPT ![t] = NoRet]
    /\ UNCHANGED <<quiz, progressVars, cacheVars, clock, lock, profileVars, loader_lock, teach>>

\* The body of clear_expired_cache, under the lock
ClearExpiredCacheBody(t) ==
    /\ pc[t] = "ce_wait"
    /\ CanAcquire(t)
    /\ cache' = Remaining(cache, SweptIndexes(frame[t].now), 1)
    /\ ret' = [ret EXCEPT ![t] =
                 [op |-> "clear_expired_cache",
                  count |-> Cardinality(SweptIndexes(frame[t].now))]]
    /\ pc' = [pc EXCEPT ![t] = "idle"]
    /\ UNCHANGED <<quiz, progressVars, clock, lock, profileVars, loader_lock, teach, frame>>

\* time passes
Tick ==
    /\ \E c \in ClockValues : c > clock /\ clock' = c
    /\ UNCHANGED <<quiz, progressVars, cacheVars, lock, profileVars, loader_lock, teach, pc, frame, ret>>

\* One caller at a time on the lesson cache, while the clock advances
NextCache ==
    \/ Tick
    \/ \E t \in {1} :
        \/ \E pkg \in Packages, content \in Contents, ttl \in TtlArgs :
              CallCacheLesson(t, pkg, content, ttl)
        \/ \E pkg \in Packages : CallGetCachedLesson(t, pkg)
        \/ CallClearExpiredCache(t)
        \/ CacheLessonBody(t)
        \/ GetCachedLessonBody(t)
        \/ ClearExpiredCacheBody(t)

SpecCache == Init /\ [][NextCache]_vars

\* One caller at a time writing one lesson with a ttl of no hours or of one
\* hour, reading and sweeping, while the clock advances
NextSweep ==
    \/ Tick
    \/ \E t \in {1} :
        \/ \E pkg \in Packages, ttl \in {0, 1} :
              CallCacheLesson(t, pkg, "lessonA", ttl)
        \/ \E pkg \in Packages : CallGetCachedLesson(t, pkg)
        \/ CallClearExpiredCache(t)
        \/ CacheLessonBody(t)
        \/ GetCachedLessonBody(t)
        \/ ClearExpiredCacheBody(t)

SpecSweep == Init /\ [][NextSweep]_vars

\* a thread's first call is a cache write for the package "docker"
FirstCacheLesson(t) ==
    /\ frame[t].op = "none"
    /\ \E content \in Contents, ttl \in {0, 1} :
         CallCacheLesson(t, "docker", content, ttl)

\* Several threads, each writing the cache entry of one package once
\* through one store, while the clock advances
NextCacheConc ==
    \/ Tick
    \/ \E t \in Threads :
        \/ FirstCacheLesson(t)
        \/ CacheLessonBody(t)

SpecCacheConc == Init /\ [][NextCacheConc]_vars

\* --------------------------------------------------------- student profile
Concepts == {"x", "y"}
LearningStyles == {"reading", "visual"}

\* concept lists a caller passes: the spec's concept sets, as lists without
\* repetition
ConceptLists == {<<>>, <<"x">>, <<"y">>}

\* StudentProfile(mastered_concepts=..., weak_concepts=..., learning_style=...)
StudentProfile(mastered, weak, style) ==
    [mastered_concepts |-> mastered, weak_concepts |-> weak,
     learning_style |-> style]

\* StudentProfile(): the defaults of the model class
DefaultProfile == StudentProfile(<<>>, <<>>, "reading")

\* profiles a caller of update_student_profile may pass
ProfileArgs ==
    {StudentProfile(m, w, s) :
        m \in ConceptLists, w \in ConceptLists, s \in LearningStyles}

\* `concept in list`
Contains(list, concept) == \E i \in 1..Len(list) : list[i] = concept

\* list.remove(concept): the list without the first occurrence of concept
RemoveFirst(list, concept) ==
    LET first == CHOOSE i \in 1..Len(list) :
                    /\ list[i] = concept
                    /\ \A j \in 1..(i - 1) : list[j] # concept
    IN  SubSeq(list, 1, first - 1) \o SubSeq(list, first + 1, Len(list))

\* SELECT * FROM student_profile LIMIT 1, then fetchone()
SelectProfile(rows) == IF rows = <<>> THEN None ELSE Some(rows[1])

\* StudentProfile(id=row["id"], mastered_concepts=json.loads(...), ...)
RowToProfile(row) ==
    [id |-> row.id,
     mastered_concepts |-> JsonLoads(row.mastered_concepts),
     weak_concepts |-> JsonLoads(row.weak_concepts),
     learning_style |-> row.learning_style,
     last_session |-> row.last_session]

\* INSERT OR IGNORE INTO student_profile (mastered_concepts, weak_concepts,
\* learning_style): the table has no constraint but its AUTOINCREMENT key,
\* so nothing is ignored and the statement adds a row.  No statement of the
\* store deletes a profile row, so the next id is the row count plus one.
InsertDefaultProfile(rows) ==
    Append(rows,
           [id |-> Len(rows) + 1,
            mastered_concepts |-> JsonDumps(DefaultProfile.mastered_concepts),
            weak_concepts |-> JsonDumps(DefaultProfile.weak_concepts),
            learning_style |-> DefaultProfile.learning_style,
            last_session |-> None])

\* `if row:` is false in a profile operation that always builds the default
NeedsDefault_Always(row) == TRUE

\* `if row:` is false: the operation goes on to _create_default_profile
NeedsDefault(row) == row = None

\* UPDATE student_profile SET mastered_concepts, weak_concepts,
\* learning_style, last_session WHERE id = (SELECT id ... LIMIT 1)
UpdateProfileRows(rows, p, now) ==
    [i \in 1..Len(rows) |->
        IF SelectProfile(rows) # None /\ rows[i].id = Get(SelectProfile(rows)).id
        THEN [rows[i] EXCEPT
                 !.mastered_concepts = JsonDumps(p.mastered_concepts),
                 !.weak_concepts = JsonDumps(p.weak_concepts),
                 !.learning_style = p.learning_style,
                 !.last_session = Some(now)]
        ELSE rows[i]]

\* `if concept not in mastered:` taken whatever the lists hold
MasteredChanges_Always(row, concept) == TRUE

\* add_mastered_concept: `if concept not in mastered:`
MasteredChanges(row, concept) ==
    ~Contains(JsonLoads(row.mastered_concepts), concept)

\* add_mastered_concept: mastered.append(concept); weak.remove(concept) if
\* it is there; UPDATE ... SET mastered_concepts, weak_concepts,
\* last_session WHERE id = row["id"]
AddMasteredRows(rows, row, concept, now) ==
    LET mastered == JsonLoads(row.mastered_concepts)
        weak == JsonLoads(row.weak_concepts)
    IN  [i \in 1..Len(rows) |->
            IF rows[i].id = row.id
            THEN [rows[i] EXCEPT
                    !.mastered_concepts = JsonDumps(Append(mastered, concept)),
                    !.weak_concepts =
                        JsonDumps(IF Contains(weak, concept)
                                  THEN RemoveFirst(weak, concept) ELSE weak),
                    !.last_session = Some(now)]
            ELSE rows[i]]

\* add_weak_concept: `if concept not in weak and concept not in mastered:`
WeakChanges(row, concept) ==
    /\ ~Contains(JsonLoads(row.weak_concepts), concept)
    /\ ~Contains(JsonLoads(row.mastered_concepts), concept)

\* add_weak_concept: weak.append(concept); UPDATE ... SET weak_concepts,
\* last_session WHERE id = row["id"]
AddWeakRows(rows, row, concept, now) ==
    [i \in 1..Len(rows) |->
        IF rows[i].id = row.id
        THEN [rows[i] EXCEPT
                !.weak_concepts =
                    JsonDumps(Append(JsonLoads(row.weak_concepts), concept)),
                !.last_session = Some(now)]
        ELSE rows[i]]

\* ---- _get_connection scopes that span several steps
\* `with self._lock:` entered: the RLock counts the owner's acquisitions
Acquired(l, t) == [owner |-> t, depth |-> l.depth + 1]

\* leaving a `with self._lock:` block frees the lock at once
Released_Whole(l) == FreeLock

\* leaving a `with self._lock:` block: the lock is free when the owner has
\* left as many blocks as it entered
Released(l) == IF l.depth <= 1 THEN FreeLock ELSE [l EXCEPT !.depth = @ - 1]

\* an exception leaves every `with` block it passes on its way out of the
\* operation
Unwound(l) == FreeLock

\* where a thread asks for the store's lock, and where it is once it has it
WaitPcs == {"gsp_wait", "cdp_wait", "usp_wait", "ac_wait"}
EnteredPc(p) ==
    CASE p = "gsp_wait" -> "gsp_in"
      [] p = "cdp_wait" -> "cdp_in"
      [] p = "usp_wait" -> "usp_in"
      [] p = "ac_wait" -> "ac_in"

\* the positions inside a _get_connection scope of the store (at cdp_wait
\* the thread is inside the scope of the operation that calls
\* _create_default_profile)
ScopePcs == {"gsp_in", "gsp_exit", "cdp_wait", "cdp_in", "usp_in", "ac_in",
             "ac_reselect", "ac_write"}
InScope(t) == pc[t] \in ScopePcs

AddOps == {"add_mastered_concept", "add_weak_concept"}

\* the caller's previous call, as the frame of that call stands.  (`prev`
\* is not a local of any method: it records the order of the calls.)
PreviousCall(f) ==
    IF f.op \in AddOps \cup {"update_student_profile"} THEN f
    ELSE [op |-> f.op]

\* SQLiteStore.get_student_profile(), up to the lock
BeginGetStudentProfile(t) ==
    /\ pc[t] = "idle"
    /\ frame' = [frame EXCEPT ![t] =
                    [op |-> "get_student_profile", created |-> None,
                     prev |-> PreviousCall(frame[t])]]
    /\ pc' = [pc EXCEPT ![t] = "gsp_wait"]
    /\ ret' = [ret EXCEPT ![t] = NoRet]
    /\ UNCHANGED <<quiz, progressVars, cacheVars, clock, lock, profileVars,
                   loader_lock>>

\* SQLiteStore.get_student_profile() called on its own
CallGetStudentProfile(t) ==
    /\ BeginGetStudentProfile(t)
    /\ UNCHANGED teach

\* SQLiteStore.update_student_profile(profile), up to the lock
CallUpdateStudentProfile(t, p) ==
    /\ pc[t] = "idle"
    /\ frame' = [frame EXCEPT ![t] =
                    [op |-> "update_student_profile", profile |-> p,
                     now |-> IsoFormat(clock)]]
    /\ pc' = [pc EXCEPT ![t] = "usp_wait"]
    /\ ret' = [ret EXCEPT ![t] = NoRet]
    /\ UNCHANGED <<quiz, progressVars, cacheVars, clock, lock, profileVars,
                   loader_lock, teach>>

\* SQLiteStore.add_mastered_concept(concept) and add_weak_concept(concept),
\* up to the lock
CallAddConcept(t, op, concept) ==
    /\ pc[t] = "idle"
    /\ frame' = [frame EXCEPT ![t] =
                    [op |-> op, concept |-> concept,
                     now |-> IsoFormat(clock), row |-> None,
                     prev |-> PreviousCall(frame[t])]]
    /\ pc' = [pc EXCEPT ![t] = "ac_wait"]
    /\ ret' = [ret EXCEPT ![t] = NoRet]
    /\ UNCHANGED <<quiz, progressVars, cacheVars, clock, lock, profileVars,
                   loader_lock, teach>>

\* _get_connection: `with self._lock:` is entered
Enter(t) ==
    /\ pc[t] \in WaitPcs
    /\ CanAcquire(t)
    /\ lock' = Acquired(lock, t)
    /\ pc' = [pc EXCEPT ![t] = EnteredPc(pc[t])]
    /\ UNCHANGED <<quiz, progressVars, cacheVars, clock, profileVars, loader_lock, teach,
                   frame, ret>>

\* get_student_profile: the SELECT; the row is returned and the scope left,
\* or _create_default_profile is called inside the scope
GetStudentProfileBody(t) ==
    /\ pc[t] = "gsp_in"
    /\ LET row == SelectProfile(profile)
       IN  IF NeedsDefault(row)
           THEN /\ pc' = [pc EXCEPT ![t] = "cdp_wait"]
                /\ UNCHANGED <<quiz, lock, ret, frame>>
           ELSE /\ ret' = [ret EXCEPT ![t] =
                             [op |-> "get_student_profile",
                              profile |-> RowToProfile(Get(row))]]
                /\ frame' = [frame EXCEPT ![t] =
                                [op |-> "get_student_profile"]]
                /\ lock' = Released(lock)
                /\ pc' = [pc EXCEPT ![t] = "idle"]
    /\ UNCHANGED <<quiz, progressVars, cacheVars, clock, profileVars, loader_lock, teach>>

\* _create_default_profile under its own scope: the insert, the commit and
\* the re-fetch; the scope is left and the caller goes on
CreateDefaultProfileBody(t) ==
    /\ pc[t] = "cdp_in"
    /\ profile' = InsertDefaultProfile(profile)
    /\ lock' = Released(lock)
    /\ IF frame[t].op = "get_student_profile"
       THEN /\ frame' = [frame EXCEPT ![t].created =
                          Some(RowToProfile(Get(SelectProfile(profile'))))]
            /\ pc' = [pc EXCEPT ![t] = "gsp_exit"]
       ELSE /\ pc' = [pc EXCEPT ![t] = "ac_reselect"]
            /\ UNCHANGED frame
    /\ UNCHANGED <<quiz, progressVars, cacheVars, clock, loader_lock, teach, ret>>

\* get_student_profile: `return self._create_default_profile()` leaves the
\* scope of get_student_profile
GetStudentProfileExit(t) ==
    /\ pc[t] = "gsp_exit"
    /\ ret' = [ret EXCEPT ![t] =
                 [op |-> "get_student_profile",
                  profile |-> Get(frame[t].created)]]
    /\ frame' = [frame EXCEPT ![t] = [op |-> "get_student_profile"]]
    /\ lock' = Released(lock)
    /\ pc' = [pc EXCEPT ![t] = "idle"]
    /\ UNCHANGED <<quiz, progressVars, cacheVars, clock, profileVars, loader_lock, teach>>

\* update_student_profile under the lock: the UPDATE and the commit
UpdateStudentProfileBody(t) ==
    /\ pc[t] = "usp_in"
    /\ profile' = UpdateProfileRows(profile, frame[t].profile, frame[t].now)
    /\ ret' = [ret EXCEPT ![t] = [op |-> "update_student_profile"]]
    /\ frame' = [frame EXCEPT ![t] =
                    [op |-> "update_student_profile",
                     profile |-> frame[t].profile]]
    /\ lock' = Released(lock)
    /\ pc' = [pc EXCEPT ![t] = "idle"]
    /\ UNCHANGED <<quiz, progressVars, cacheVars, clock, loader_lock, teach>>

\* add_mastered_concept / add_weak_concept: the first SELECT
AddConceptSelect(t) ==
    /\ pc[t] = "ac_in"
    /\ LET row == SelectProfile(profile)
       IN  IF NeedsDefault(row)
           THEN /\ pc' = [pc EXCEPT ![t] = "cdp_wait"]
                /\ UNCHANGED frame
           ELSE /\ frame' = [frame EXCEPT ![t].row = row]
                /\ pc' = [pc EXCEPT ![t] = "ac_write"]
    /\ UNCHANGED <<quiz, progressVars, cacheVars, clock, lock, profileVars,
                   loader_lock, teach, ret>>

\* add_mastered_concept / add_weak_concept: the SELECT after
\* _create_default_profile
AddConceptReselect(t) ==
    /\ pc[t] = "ac_reselect"
    /\ frame' = [frame EXCEPT ![t].row = SelectProfile(profile)]
    /\ pc' = [pc EXCEPT ![t] = "ac_write"]
    /\ UNCHANGED <<quiz, progressVars, cacheVars, clock, lock, profileVars,
                   loader_lock, teach, ret>>

\* add_mastered_concept / add_weak_concept: the decision on the lists read,
\* the UPDATE and the commit; the scope is left.  (`changed` is not a
\* result of the call: it records whether the UPDATE ran, and `removed`
\* whether it took the concept out of the weak list.)
AddConceptWrite(t) ==
    /\ pc[t] = "ac_write"
    /\ LET row == Get(frame[t].row)
           concept == frame[t].concept
           changes == IF frame[t].op = "add_mastered_concept"
                      THEN MasteredChanges(row, concept)
                      ELSE WeakChanges(row, concept)
       IN  /\ profile' =
                IF ~changes THEN profile
                ELSE IF frame[t].op = "add_mastered_concept"
                THEN AddMasteredRows(profile, row, concept, frame[t].now)
                ELSE AddWeakRows(profile, row, concept, frame[t].now)
           /\ ret' = [ret EXCEPT ![t] =
                        [op |-> frame[t].op, changed |-> changes,
                         removed |->
                            /\ changes
                            /\ frame[t].op = "add_mastered_concept"
                            /\ Contains(JsonLoads(row.weak_concepts),
                                        concept)]]
    /\ frame' = [frame EXCEPT ![t] =
                    [op |-> frame[t].op, concept |-> frame[t].concept]]
    /\ lock' = Released(lock)
    /\ pc' = [pc EXCEPT ![t] = "idle"]
    /\ UNCHANGED <<quiz, progressVars, cacheVars, clock, loader_lock, teach>>

\* One caller at a time on the student profile, while the clock advances
NextProfile ==
    \/ Tick
    \/ \E t \in {1} :
        \/ CallGetStudentProfile(t)
        \/ \E p \in ProfileArgs : CallUpdateStudentProfile(t, p)
        \/ \E op \in AddOps, c \in Concepts : CallAddConcept(t, op, c)
        \/ Enter(t)
        \/ GetStudentProfileBody(t)
        \/ CreateDefaultProfileBody(t)
        \/ GetStudentProfileExit(t)
        \/ UpdateStudentProfileBody(t)
        \/ AddConceptSelect(t)
        \/ AddConceptReselect(t)
        \/ AddConceptWrite(t)

SpecProfile == Init /\ [][NextProfile]_vars

\* a thread's first call on the profile of a database that has no profile
\* row yet
FirstProfileAccess(t) ==
    /\ frame[t].op = "none"
    /\ \/ CallGetStudentProfile(t)
       \/ \E op \in AddOps, c \in Concepts : CallAddConcept(t, op, c)

\* the steps of a profile operation that thread t has called
Proceed(t) ==
    \/ Enter(t)
    \/ GetStudentProfileBody(t)
    \/ CreateDefaultProfileBody(t)
    \/ GetStudentProfileExit(t)
    \/ AddConceptSelect(t)
    \/ AddConceptReselect(t)
    \/ AddConceptWrite(t)

\* Several threads, each making its first access to the profile through
\* one store
NextProfileConc ==
    \E t \in Threads :
        \/ FirstProfileAccess(t)
        \/ Enter(t)
        \/ GetStudentProfileBody(t)
        \/ CreateDefaultProfileBody(t)
        \/ GetStudentProfileExit(t)
        \/ AddConceptSelect(t)
        \/ AddConceptReselect(t)
        \/ AddConceptWrite(t)

SpecProfileConc == Init /\ [][NextProfileConc]_vars

\* a statement or the connection raises inside a scope (sqlite3.Error): the
\* exception leaves the `try ... finally: conn.close()` and the
\* `with self._lock:` of every scope of the operation and reaches the
\* caller
Raise(t) ==
    /\ InScope(t)
    /\ lock' = Unwound(lock)
    /\ ret' = [ret EXCEPT ![t] = [op |-> "raised", from |-> frame[t].op]]
    /\ frame' = [frame EXCEPT ![t] = [op |-> frame[t].op]]
    /\ pc' = [pc EXCEPT ![t] = "idle"]
    /\ UNCHANGED <<quiz, progressVars, cacheVars, clock, profileVars, loader_lock, teach>>

\* The same threads when any step inside a scope may raise
NextProfileFair ==
    \E t \in Threads :
        \/ FirstProfileAccess(t)
        \/ Enter(t)
        \/ GetStudentProfileBody(t)
        \/ CreateDefaultProfileBody(t)
        \/ GetStudentProfileExit(t)
        \/ AddConceptSelect(t)
        \/ AddConceptReselect(t)
        \/ AddConceptWrite(t)
        \/ Raise(t)

\* every thread that has called an operation is scheduled again: a step of
\* its operation that stays possible is taken
SpecProfileFair ==
    /\ Init
    /\ [][NextProfileFair]_vars
    /\ \A t \in Threads : WF_vars(Proceed(t))

\* -------------------------------------------------------------- TutorAgent
\* TutorAgent() builds ProgressTrackerTool() and LessonLoaderTool(); each
\* builds its own SQLiteStore on the database file of the configuration, so
\* the two stores read and write the same tables (progress, profile, cache)
\* and each has the RLock its constructor made: `lock` is the tracker
\* store's, `loader_lock` the loader store's.

\* config.cache_ttl_hours, when the environment does not set it
DefaultCacheTtlHours == 24

\* the topic teach records progress under
OverviewTopic == "overview"

\* `with self._lock:` of the loader's store
LoaderCanAcquire(t) == loader_lock.owner \in {NoThread, t}

LoaderWaitPcs == {"lgc_wait", "lcl_wait"}
LoaderScopePcs == {"lgc_in", "lcl_in"}
InLoaderScope(t) == pc[t] \in LoaderScopePcs

\* the lesson LessonLoaderTool.clear_cache writes over an entry: {}
EmptyLesson == "{}"

\* LessonLoaderTool._run: `if cached:` (an empty dict is not a hit)
CacheHit(cached) == cached # None /\ Get(cached) # EmptyLesson

\* SELECT DISTINCT package_name FROM learning_progress
PackagesStudied(rows) == {r.package_name : r \in rows}

\* BLOCKED_PATTERNS: texts that match one of the patterns
Blocked == {"rm -rf /"}

\* validate_package_name: not empty, no blocked pattern, well formed
ValidPackageName(pkg) == pkg # "" /\ pkg \notin Blocked

\* validate_question -> validate_input: not empty, no blocked pattern
ValidQuestion(question) == question # "" /\ question \notin Blocked

\* update_learning_style: valid_styles
ValidStyles == {"visual", "reading", "hands-on"}

\* what generate_lesson answers with: a validated lesson, or _error_response
NoLesson == "None"
GenerateResults ==
    {[success |-> TRUE, lesson |-> l] : l \in Contents}
      \cup {[success |-> FALSE, lesson |-> NoLesson]}

\* a generator whose every answer is taken for a lesson
Succeeded_Always(result) == TRUE

\* teach: `if not result.get("success"):` is the failure
Succeeded(result) == result.success

\* the result a facade call of TutorAgent ends with (calls: how many times
\* the call has invoked the content generator)
Finished(call, type, source, content) ==
    IF "stored" \in DOMAIN call
    THEN [phase |-> "none", package_name |-> call.package_name,
          force_fresh |-> call.force_fresh, calls |-> call.calls,
          result |-> [type |-> type, source |-> source, content |-> content],
          stored |-> call.stored]
    ELSE [phase |-> "none", package_name |-> call.package_name,
          force_fresh |-> call.force_fresh, calls |-> call.calls,
          result |-> [type |-> type, source |-> source, content |-> content]]

\* TutorAgent.teach(package_name, force_fresh) is called: the name is
\* validated, and an invalid name raises ValueError.  (before: the lesson
\* cache and the progress table at the call, not part of the program.)
TeachStart(t, pkg, force_fresh) ==
    /\ pc[t] = "idle"
    /\ teach[t].phase = "none"
    /\ LET call == [package_name |-> pkg, force_fresh |-> force_fresh,
                    calls |-> 0]
       IN  teach' = [teach EXCEPT ![t] =
              IF ValidPackageName(pkg)
              THEN [phase |-> IF force_fresh THEN "profile" ELSE "lookup",
                    package_name |-> pkg, force_fresh |-> force_fresh,
                    calls |-> 0,
                    before |-> [cache |-> cache, progress |-> progress]]
              ELSE Finished(call, "raised", "ValueError", None)]
    /\ UNCHANGED <<quiz, progressVars, cacheVars, clock, lock, profileVars,
                   loader_lock, pc, frame, ret>>

\* teach: self.loader._run(package_name) -> get_cached_lesson of the
\* loader's store, up to its lock
TeachLoaderRun(t) ==
    /\ pc[t] = "idle"
    /\ teach[t].phase = "lookup"
    /\ frame' = [frame EXCEPT ![t] =
          [op |-> "get_cached_lesson",
           package_name |-> teach[t].package_name,
           now |-> IsoFormat(clock), read_at |-> clock]]
    /\ pc' = [pc EXCEPT ![t] = "lgc_wait"]
    /\ ret' = [ret EXCEPT ![t] = NoRet]
    /\ teach' = [teach EXCEPT ![t].phase = "looked"]
    /\ UNCHANGED <<quiz, progressVars, cacheVars, clock, lock, profileVars,
                   loader_lock>>

\* _get_connection of the loader's store: `with self._lock:` is entered
LoaderEnter(t) ==
    /\ pc[t] \in LoaderWaitPcs
    /\ LoaderCanAcquire(t)
    /\ loader_lock' = Acquired(loader_lock, t)
    /\ pc' = [pc EXCEPT ![t] = IF pc[t] = "lgc_wait" THEN "lgc_in"
                                ELSE "lcl_in"]
    /\ UNCHANGED <<quiz, progressVars, cacheVars, clock, lock, profileVars, teach,
                   frame, ret>>

\* get_cached_lesson of the loader's store inside its scope
LoaderGetCachedLessonBody(t) ==
    /\ pc[t] = "lgc_in"
    /\ \E lesson \in SelectCached(frame[t].package_name, frame[t].now) :
         ret' = [ret EXCEPT ![t] =
                   [op |-> "get_cached_lesson", lesson |-> lesson]]
    /\ loader_lock' = Released(loader_lock)
    /\ pc' = [pc EXCEPT ![t] = "idle"]
    /\ UNCHANGED <<quiz, progressVars, cacheVars, clock, lock, profileVars, teach,
                   frame>>

\* teach: `if cache_result.get("cache_hit"):` returns the cached lesson;
\* otherwise teach goes on to the profile
TeachAfterLookup(t) ==
    /\ pc[t] = "idle"
    /\ teach[t].phase = "looked"
    /\ teach' = [teach EXCEPT ![t] =
          IF CacheHit(ret[t].lesson)
          THEN Finished(teach[t], "lesson", "cache", Get(ret[t].lesson))
          ELSE [teach[t] EXCEPT !.phase = "profile"]]
    /\ UNCHANGED <<quiz, progressVars, cacheVars, clock, lock, profileVars,
                   loader_lock, pc, frame, ret>>

\* teach: self._get_profile() -> ProgressTrackerTool._get_profile ->
\* get_student_profile of the tracker's store, up to its lock
TeachGetProfile(t) ==
    /\ teach[t].phase = "profile"
    /\ BeginGetStudentProfile(t)
    /\ teach' = [teach EXCEPT ![t].phase = "generate"]

\* teach: generate_lesson(...) answers with a lesson or with a failure,
\* and a failure is returned as an error.  (generated: the generator's
\* answer, kept for the rest of the call.)
TeachGenerate(t) ==
    /\ pc[t] = "idle"
    /\ teach[t].phase = "generate"
    /\ \E result \in GenerateResults :
         LET call == [teach[t] EXCEPT !.calls = @ + 1]
         IN  teach' = [teach EXCEPT ![t] =
                IF Succeeded(result)
                THEN [phase |-> "store", package_name |-> call.package_name,
                      force_fresh |-> call.force_fresh,
                      calls |-> call.calls, generated |-> result]
                ELSE Finished(call, "error", "failed", None)]
    /\ UNCHANGED <<quiz, progressVars, cacheVars, clock, lock, profileVars,
                   loader_lock, pc, frame, ret>>

\* LessonLoaderTool.cache_lesson(package_name, lesson, ttl_hours) ->
\* cache_lesson of the loader's store, up to its lock
BeginLoaderCacheLesson(t, pkg, lesson, ttl_hours) ==
    /\ pc[t] = "idle"
    /\ frame' = [frame EXCEPT ![t] =
          [op |-> "cache_lesson",
           row |-> [package_name |-> pkg,
                    content |-> JsonDumps(lesson),
                    expires_at |-> ExpiresAt(clock, ttl_hours),
                    written_at |-> clock,
                    ttl_hours |-> ttl_hours,
                    lesson |-> lesson]]]
    /\ pc' = [pc EXCEPT ![t] = "lcl_wait"]
    /\ ret' = [ret EXCEPT ![t] = NoRet]
    /\ UNCHANGED <<quiz, progressVars, cacheVars, clock, lock, profileVars,
                   loader_lock>>

\* teach: self.loader.cache_lesson(package_name, lesson), with the
\* configured ttl
TeachCacheLesson(t) ==
    /\ teach[t].phase = "store"
    /\ BeginLoaderCacheLesson(t, teach[t].package_name,
                              teach[t].generated.lesson, DefaultCacheTtlHours)
    /\ teach' = [teach EXCEPT ![t].phase = "progress"]

\* cache_lesson of the loader's store inside its scope
LoaderCacheLessonBody(t) ==
    /\ pc[t] = "lcl_in"
    /\ cache' = CacheUpsert(cache, frame[t].row)
    /\ ret' = [ret EXCEPT ![t] = [op |-> "cache_lesson"]]
    /\ frame' = [frame EXCEPT ![t] = [op |-> "cache_lesson"]]
    /\ loader_lock' = Released(loader_lock)
    /\ pc' = [pc EXCEPT ![t] = "idle"]
    /\ UNCHANGED <<quiz, progressVars, clock, lock, profileVars, teach>>

\* teach: self.progress_tool._run("update_progress", package_name=...,
\* topic="overview"), up to the lock of its get_progress call
TeachUpdateProgress(t) ==
    /\ teach[t].phase = "progress"
    /\ BeginUpdateProgress(t, Some(teach[t].package_name),
                           Some(OverviewTopic), None, None, None)
    /\ teach' = [teach EXCEPT ![t].phase = "return"]

\* teach returns the generated lesson
TeachReturn(t) ==
    /\ pc[t] = "idle"
    /\ teach[t].phase = "return"
    /\ teach' = [teach EXCEPT ![t] =
          Finished(teach[t], "lesson", "generated",
                   teach[t].generated.lesson)]
    /\ UNCHANGED <<quiz, progressVars, cacheVars, clock, lock, profileVars,
                   loader_lock, pc, frame, ret>>

\* TutorAgent.reset_progress(package_name) ->
\* ProgressTrackerTool._reset_progress, between two lessons
AgentResetProgress(t) ==
    /\ teach[t].phase = "none"
    /\ CallResetProgress(t, None)

\* Several threads calling teach and reset_progress of one TutorAgent
NextAgent ==
    \E t \in Threads :
        \/ \E force_fresh \in BOOLEAN : TeachStart(t, "docker", force_fresh)
        \/ TeachLoaderRun(t)
        \/ LoaderEnter(t)
        \/ LoaderGetCachedLessonBody(t)
        \/ TeachAfterLookup(t)
        \/ TeachGetProfile(t)
        \/ Enter(t)
        \/ GetStudentProfileBody(t)
        \/ CreateDefaultProfileBody(t)
        \/ GetStudentProfileExit(t)
        \/ TeachGenerate(t)
        \/ TeachCacheLesson(t)
        \/ LoaderCacheLessonBody(t)
        \/ TeachUpdateProgress(t)
        \/ GetProgressBody(t)
        \/ UpsertBody(t)
        \/ TeachReturn(t)
        \/ AgentResetProgress(t)
        \/ ResetBody(t)

SpecAgent == Init /\ [][NextAgent]_vars

\* TutorAgent.ask(package_name, question) is called: the name and the
\* question are validated, and an invalid one raises ValueError
AskStart(t, pkg, question) ==
    /\ pc[t] = "idle"
    /\ teach[t].phase = "none"
    /\ LET call == [package_name |-> pkg, force_fresh |-> FALSE, calls |-> 0]
       IN  teach' = [teach EXCEPT ![t] =
              IF ValidPackageName(pkg) /\ ValidQuestion(question)
              THEN [phase |-> "answer", package_name |-> pkg,
                    force_fresh |-> FALSE, calls |-> 0]
              ELSE Finished(call, "raised", "ValueError", None)]
    /\ UNCHANGED <<quiz, progressVars, cacheVars, clock, lock, profileVars,
                   loader_lock, pc, frame, ret>>

\* ask: answer_question(...) answers or fails, and ask returns
AskGenerate(t) ==
    /\ pc[t] = "idle"
    /\ teach[t].phase = "answer"
    /\ \E result \in GenerateResults :
         LET call == [teach[t] EXCEPT !.calls = @ + 1]
         IN  teach' = [teach EXCEPT ![t] =
                IF Succeeded(result)
                THEN Finished(call, "qa", "generated", result.lesson)
                ELSE Finished(call, "error", "failed", None)]
    /\ UNCHANGED <<quiz, progressVars, cacheVars, clock, lock, profileVars,
                   loader_lock, pc, frame, ret>>

\* LessonLoaderTool.cache_lesson and clear_cache(package_name) called on
\* their own, between two facade calls: clear_cache writes {} with ttl 0
LoaderCacheLesson(t, pkg, lesson, ttl_hours) ==
    /\ teach[t].phase = "none"
    /\ BeginLoaderCacheLesson(t, pkg, lesson, ttl_hours)
    /\ UNCHANGED teach

\* what a caller of the loader's cache_lesson and clear_cache may write
LoaderWrites ==
    {<<"lessonA", 1>>, <<EmptyLesson, 1>>, <<EmptyLesson, 0>>}

\* One caller at a time of teach and ask, and of the loader's cache writes,
\* while the clock advances
NextAgentSeq ==
    \/ Tick
    \/ \E t \in {1} :
        \/ \E force_fresh \in BOOLEAN : TeachStart(t, "docker", force_fresh)
        \/ TeachLoaderRun(t)
        \/ LoaderEnter(t)
        \/ LoaderGetCachedLessonBody(t)
        \/ TeachAfterLookup(t)
        \/ TeachGetProfile(t)
        \/ Enter(t)
        \/ GetStudentProfileBody(t)
        \/ CreateDefaultProfileBody(t)
        \/ GetStudentProfileExit(t)
        \/ TeachGenerate(t)
        \/ TeachCacheLesson(t)
        \/ LoaderCacheLessonBody(t)
        \/ TeachUpdateProgress(t)
        \/ GetProgressBody(t)
        \/ UpsertBody(t)
        \/ TeachReturn(t)
        \/ AskStart(t, "docker", "What is Docker?")
        \/ AskGenerate(t)
        \/ \E w \in LoaderWrites : LoaderCacheLesson(t, "docker", w[1], w[2])

SpecAgentSeq == Init /\ [][NextAgentSeq]_vars

\* validate_topic: not empty, well formed
ValidTopic(topic) == topic # "" /\ topic \notin Blocked

\* TutorAgent.mark_completed(package_name, topic, score): a score outside
\* [0.0, 1.0] returns False; otherwise ProgressTrackerTool._run(
\* "mark_completed", ...) is called with the arguments as they are
AgentMarkCompleted(t, pkg, topic, score) ==
    /\ teach[t].phase = "none"
    /\ IF ~(0 <= score /\ score <= DefaultScore)
       THEN /\ pc[t] = "idle"
            /\ ret' = [ret EXCEPT ![t] =
                         [op |-> "mark_completed", success |-> FALSE]]
            /\ frame' = [frame EXCEPT ![t] = NoFrame]
            /\ UNCHANGED <<quiz, progressVars, cacheVars, clock, lock,
                           profileVars, loader_lock, teach, pc>>
       ELSE CallMarkCompleted(t, Some(pkg), Some(topic), Some(score))

\* TutorAgent.update_learning_style(style): a style outside valid_styles
\* returns False; otherwise ProgressTrackerTool._update_profile is called,
\* which starts with get_student_profile
AgentUpdateLearningStyle(t, style) ==
    /\ teach[t].phase = "none"
    /\ IF style \notin ValidStyles
       THEN /\ pc[t] = "idle"
            /\ ret' = [ret EXCEPT ![t] =
                         [op |-> "update_learning_style", success |-> FALSE]]
            /\ frame' = [frame EXCEPT ![t] = NoFrame]
            /\ UNCHANGED <<quiz, progressVars, cacheVars, clock, lock,
                           profileVars, loader_lock, teach, pc>>
       ELSE /\ BeginGetStudentProfile(t)
            /\ teach' = [teach EXCEPT ![t] =
                            [phase |-> "style", learning_style |-> style]]

\* _update_profile: profile.learning_style = learning_style and
\* update_student_profile(profile), up to the lock
AgentUpdateProfile(t) ==
    /\ teach[t].phase = "style"
    /\ ret[t].op = "get_student_profile"
    /\ CallUpdateStudentProfile(t,
          [ret[t].profile EXCEPT !.learning_style = teach[t].learning_style])

\* update_learning_style returns result.get("success")
AgentStyleReturn(t) ==
    /\ teach[t].phase = "style"
    /\ pc[t] = "idle"
    /\ ret[t].op = "update_student_profile"
    /\ teach' = [teach EXCEPT ![t] = NoTeach]
    /\ UNCHANGED <<quiz, progressVars, cacheVars, clock, lock, profileVars,
                   loader_lock, pc, frame, ret>>

\* arguments of the facade: valid ones, empty ones and blocked ones
NameArgs == {"docker", "", "rm -rf /"}
TopicNameArgs == {"basics", ""}
QuestionArgs == {"What is Docker?", "", "rm -rf /"}
StyleArgs == {"visual", "auditory"}
FacadeScoreArgs == {5, 15}

\* One caller at a time of the facade operations that take arguments, with
\* valid and invalid ones
NextFacade ==
    \E t \in {1} :
        \/ \E pkg \in NameArgs, force_fresh \in BOOLEAN :
              TeachStart(t, pkg, force_fresh)
        \/ TeachLoaderRun(t)
        \/ LoaderEnter(t)
        \/ LoaderGetCachedLessonBody(t)
        \/ TeachAfterLookup(t)
        \/ TeachGetProfile(t)
        \/ Enter(t)
        \/ GetStudentProfileBody(t)
        \/ CreateDefaultProfileBody(t)
        \/ GetStudentProfileExit(t)
        \/ TeachGenerate(t)
        \/ TeachCacheLesson(t)
        \/ LoaderCacheLessonBody(t)
        \/ TeachUpdateProgress(t)
        \/ GetProgressBody(t)
        \/ UpsertBody(t)
        \/ TeachReturn(t)
        \/ \E pkg \in NameArgs, question \in QuestionArgs :
              AskStart(t, pkg, question)
        \/ AskGenerate(t)
        \/ \E pkg \in NameArgs, topic \in TopicNameArgs,
              score \in FacadeScoreArgs :
              AgentMarkCompleted(t, pkg, topic, score)
        \/ \E style \in StyleArgs : AgentUpdateLearningStyle(t, style)
        \/ AgentUpdateProfile(t)
        \/ UpdateStudentProfileBody(t)
        \/ AgentStyleReturn(t)

SpecFacade == Init /\ [][NextFacade]_vars

\* a statement of the loader's store raises inside its scope
\* (sqlite3.Error): the exception leaves the `with self._lock:`, and
\* LessonLoaderTool._run and cache_lesson catch it, log it and return a
\* miss and False
LoaderRaise(t) ==
    /\ InLoaderScope(t)
    /\ loader_lock' = Unwound(loader_lock)
    /\ ret' = [ret EXCEPT ![t] =
                 [op |-> "raised", from |-> frame[t].op, lesson |-> None]]
    /\ frame' = [frame EXCEPT ![t] = [op |-> frame[t].op]]
    /\ pc' = [pc EXCEPT ![t] = "idle"]
    /\ UNCHANGED <<quiz, progressVars, cacheVars, clock, lock, profileVars,
                   teach>>

\* a statement of the tracker's store raises in get_progress,
\* upsert_progress or reset_progress: ProgressTrackerTool._run catches the
\* exception, logs it and returns success False
TrackerRaise(t) ==
    /\ pc[t] \in {"gp_wait", "up_wait", "rs_wait"}
    /\ CanAcquire(t)
    /\ ret' = [ret EXCEPT ![t] =
                 [op |-> "raised", from |-> frame[t].op, success |-> FALSE]]
    /\ frame' = [frame EXCEPT ![t] = [op |-> frame[t].op]]
    /\ pc' = [pc EXCEPT ![t] = "idle"]
    /\ UNCHANGED <<quiz, progressVars, cacheVars, clock, lock, profileVars,
                   loader_lock, teach>>

\* cmd_teach: ValueError gives 1; InteractiveTutor.start returns when
\* the lesson failed to load as it does when the session ends, and cmd_teach
\* then returns 0
CmdTeachExitCode(result) == IF result.type = "raised" THEN 1 ELSE 0

\* cmd_teach returns, after the teach call of InteractiveTutor.start
CmdTeachExit(t) ==
    /\ pc[t] = "idle"
    /\ teach[t].phase = "none"
    /\ teach[t] # NoTeach
    /\ "exit_code" \notin DOMAIN teach[t]
    /\ teach' = [teach EXCEPT ![t] =
          [phase |-> "none", package_name |-> teach[t].package_name,
           force_fresh |-> teach[t].force_fresh, calls |-> teach[t].calls,
           result |-> teach[t].result,
           exit_code |-> CmdTeachExitCode(teach[t].result)]]
    /\ UNCHANGED <<quiz, progressVars, cacheVars, clock, lock, profileVars,
                   loader_lock, pc, frame, ret>>

\* One caller at a time of cmd_teach, with a valid and an empty package
\* name, when the statements of both stores may raise
NextCli ==
    \E t \in {1} :
        \/ \E pkg \in {"docker", ""}, force_fresh \in BOOLEAN :
              TeachStart(t, pkg, force_fresh)
        \/ TeachLoaderRun(t)
        \/ LoaderEnter(t)
        \/ LoaderGetCachedLessonBody(t)
        \/ TeachAfterLookup(t)
        \/ TeachGetProfile(t)
        \/ Enter(t)
        \/ GetStudentProfileBody(t)
        \/ CreateDefaultProfileBody(t)
        \/ GetStudentProfileExit(t)
        \/ TeachGenerate(t)
        \/ TeachCacheLesson(t)
        \/ LoaderCacheLessonBody(t)
        \/ TeachUpdateProgress(t)
        \/ GetProgressBody(t)
        \/ UpsertBody(t)
        \/ TeachReturn(t)
        \/ LoaderRaise(t)
        \/ TrackerRaise(t)
        \/ CmdTeachExit(t)

SpecCli == Init /\ [][NextCli]_vars

\* ------------------------------------------------------ completion stats
\* the sum of f over the set S
RECURSIVE SumFn(_, _)
SumFn(f, S) ==
    IF S = {} THEN 0
    ELSE LET x == CHOOSE x \in S : TRUE
         IN  f[x] + SumFn(f, S \ {x})

\* SUM(...) of SQLite: NULL over no rows
SqlSum(f, S) == IF S = {} THEN None ELSE Some(SumFn(f, S))

\* AVG(...) of SQLite: NULL over no rows, else the sum over the count (the
\* model keeps the quotient as a fraction)
SqlAvg(f, S) ==
    IF S = {} THEN None
    ELSE Some([num |-> SumFn(f, S), den |-> Cardinality(S)])

\* a flag that counts every row
CompletedFlag_Always(r) == 1

\* CASE WHEN completed THEN 1 ELSE 0 END
CompletedFlag(r) == IF r.completed THEN 1 ELSE 0

\* row["..."] or 0: NULL and 0 give 0
OrZero(v) == IF v = None \/ Get(v) = 0 THEN 0 ELSE Get(v)

\* row["avg_score"] or 0.0
OrZeroAvg(v) ==
    IF v = None \/ Get(v).num = 0 THEN [num |-> 0, den |-> 1] ELSE Get(v)

\* SQLiteStore.get_completion_stats(package_name): the SELECT of the four
\* aggregates WHERE package_name = ?, and the dict built from its row
CompletionStats(pkg) ==
    LET rows == {r \in progress : r.package_name = pkg}
    IN  [total |-> OrZero(Some(Cardinality(rows))),
         completed |-> OrZero(SqlSum([r \in rows |-> CompletedFlag(r)], rows)),
         avg_score |-> OrZeroAvg(SqlAvg([r \in rows |-> r.score], rows)),
         total_time_seconds |->
             OrZero(SqlSum([r \in rows |-> r.total_time_seconds], rows))]

\* _get_stats: (stats["completed"] / stats["total"] * 100) if
\* stats["total"] > 0 else 0, kept as a fraction
CompletionPercentage(stats) ==
    IF stats.total > 0
    THEN [num |-> stats.completed * 100, den |-> stats.total]
    ELSE [num |-> 0, den |-> 1]

\* ProgressTrackerTool._run("get_stats", package_name=...) -> _get_stats ->
\* SQLiteStore.get_completion_stats under the lock
GetStats(t, pkg) ==
    /\ pc[t] = "idle"
    /\ CanAcquire(t)
    /\ frame' = [frame EXCEPT ![t] = [op |-> "get_stats", package_name |-> pkg]]
    /\ ret' = [ret EXCEPT ![t] =
          IF ~Truthy(pkg) THEN [op |-> "get_stats", success |-> FALSE]
          ELSE LET stats == CompletionStats(Get(pkg))
               IN  [op |-> "get_stats", success |-> TRUE, stats |-> stats,
                    completion_percentage |-> CompletionPercentage(stats)]]
    /\ UNCHANGED <<quiz, progressVars, cacheVars, clock, lock, profileVars,
                   loader_lock, teach, pc>>

\* records of two topics of "docker", and one record of "git"
StatsRecords ==
    {LearningProgress("docker", tp, c, s, tt) :
        tp \in {"basics", OverviewTopic}, c \in BOOLEAN, s \in {0, 10},
        tt \in {0, 1}}
      \cup {LearningProgress("git", "basics", TRUE, 5, 1)}

\* reset_progress is called with no package, with the empty string and
\* with a package
ResetArgs == PackageArgs \cup {Some("")}

\* One caller at a time writing progress rows, resetting them and asking
\* for the statistics of a package
NextStats ==
    \E t \in {1} :
        \/ \E rec \in StatsRecords : CallUpsertProgress(t, rec)
        \/ UpsertBody(t)
        \/ \E pkg \in ResetArgs : CallResetProgress(t, pkg)
        \/ ResetBody(t)
        \/ \E pkg \in ResetArgs : GetStats(t, pkg)

SpecStats == Init /\ [][NextStats]_vars

\* ------------------------------------------------------------ quiz results
\* CURRENT_TIMESTAMP of SQLite: the UTC time as "YYYY-MM-DD HH:MM:SS", to
\* the second (year and month left out as in IsoFormat)
CurrentTimestamp(t) == SubSeq(IsoFormat(t - (t % TicksPerSecond)), 1, 11)

\* an insert that takes the place of the package's earlier results
InsertQuizResult_Replace(rows, result, now) ==
    SelectSeq(rows, LAMBDA r : r.package_name # result.package_name)
      \o <<[id |-> Len(rows) + 1, package_name |-> result.package_name,
            question |-> result.question,
            user_answer |-> result.user_answer, correct |-> result.correct,
            timestamp |-> CurrentTimestamp(now)]>>

\* INSERT INTO quiz_results (package_name, question, user_answer, correct):
\* the id is the next rowid (no row of the table is ever deleted) and the
\* timestamp is the column default
InsertQuizResult(rows, result, now) ==
    Append(rows,
           [id |-> Len(rows) + 1, package_name |-> result.package_name,
            question |-> result.question,
            user_answer |-> result.user_answer, correct |-> result.correct,
            timestamp |-> CurrentTimestamp(now)])

\* SQLiteStore.add_quiz_result(result) under the lock
AddQuizResult(t, result) ==
    /\ pc[t] = "idle"
    /\ CanAcquire(t)
    /\ Len(quiz) < MaxId
    /\ quiz' = InsertQuizResult(quiz, result, clock)
    /\ frame' = [frame EXCEPT ![t] =
                    [op |-> "add_quiz_result", result |-> result]]
    /\ ret' = [ret EXCEPT ![t] =
                 [op |-> "add_quiz_result", row_id |-> Len(quiz) + 1]]
    /\ UNCHANGED <<progressVars, cacheVars, clock, lock, profileVars,
                   loader_lock, teach, pc>>

\* SELECT * FROM quiz_results WHERE package_name = ? ORDER BY timestamp
\* DESC: every order of the package's rows in which no row comes before a
\* row of a later timestamp (rows of one timestamp come in any order)
SelectQuizResults(pkg) ==
    LET mine == {i \in DOMAIN quiz : quiz[i].package_name = pkg}
        orders == {s \in [1..Cardinality(mine) -> mine] :
                     /\ \A a, b \in DOMAIN s : a # b => s[a] # s[b]
                     /\ \A a, b \in DOMAIN s :
                          a < b => ~StrLess(quiz[s[a]].timestamp,
                                            quiz[s[b]].timestamp)}
    IN  {[k \in 1..Cardinality(mine) |-> quiz[s[k]]] : s \in orders}

\* SQLiteStore.get_quiz_results(package_name) under the lock
GetQuizResults(t, pkg) ==
    /\ pc[t] = "idle"
    /\ CanAcquire(t)
    /\ frame' = [frame EXCEPT ![t] =
                    [op |-> "get_quiz_results", package_name |-> pkg]]
    /\ \E results \in SelectQuizResults(pkg) :
         ret' = [ret EXCEPT ![t] =
                   [op |-> "get_quiz_results", results |-> results]]
    /\ UNCHANGED <<quiz, progressVars, cacheVars, clock, lock, profileVars,
                   loader_lock, teach, pc>>

\* ------------------------------------------------------------------ schema
\* the tables of the database file
Database ==
    [learning_progress |-> progress, quiz_results |-> quiz,
     student_profile |-> profile, lesson_cache |-> cache]

\* a CREATE TABLE that puts an empty table in the place of the table
CreateTable_Recreate(db, name, empty) ==
    [n \in DOMAIN db \cup {name} |-> IF n = name THEN empty ELSE db[n]]

\* CREATE TABLE IF NOT EXISTS name (...)
CreateTableIfNotExists(db, name, empty) ==
    IF name \in DOMAIN db THEN db
    ELSE [n \in DOMAIN db \cup {name} |-> IF n = name THEN empty ELSE db[n]]

\* conn.executescript(self.SCHEMA): the four CREATE TABLE IF NOT EXISTS
\* (the indexes hold no rows of their own)
ExecuteSchema(db) ==
    CreateTableIfNotExists(
        CreateTableIfNotExists(
            CreateTableIfNotExists(
                CreateTableIfNotExists(db, "learning_progress", {}),
                "quiz_results", <<>>),
            "student_profile", <<>>),
        "lesson_cache", <<>>)

\* SQLiteStore(db_path) is constructed once more on the file: __init__
\* makes a lock of its own and _init_database runs the schema script
Construct(t) ==
    /\ pc[t] = "idle"
    /\ LET db == ExecuteSchema(Database)
       IN  /\ progress' = db.learning_progress
           /\ quiz' = db.quiz_results
           /\ profile' = db.student_profile
           /\ cache' = db.lesson_cache
    /\ frame' = [frame EXCEPT ![t] = [op |-> "__init__"]]
    /\ ret' = [ret EXCEPT ![t] = [op |-> "__init__"]]
    /\ UNCHANGED <<seq, clock, lock, loader_lock, teach, pc>>

\* LessonLoaderTool._run: `if force_fresh:` answers before the store is read
SkipsCache_Never(force_fresh) == FALSE

SkipsCache(force_fresh) == force_fresh

\* the dict LessonLoaderTool._run answers with, given what the store
\* returned (`if cached:`)
RunResult(cached) ==
    [op |-> "_run", cache_hit |-> CacheHit(cached),
     lesson |-> IF CacheHit(cached) THEN cached ELSE None]

\* LessonLoaderTool._run(package_name, force_fresh) is called: with
\* force_fresh it answers at once, otherwise it goes on to
\* get_cached_lesson of the loader's store, up to its lock
BeginLoaderRun(t, pkg, force_fresh) ==
    /\ pc[t] = "idle"
    /\ IF SkipsCache(force_fresh)
       THEN /\ frame' = [frame EXCEPT ![t] =
                  [op |-> "_run", package_name |-> pkg,
                   force_fresh |-> force_fresh]]
            /\ ret' = [ret EXCEPT ![t] = RunResult(None)]
            /\ pc' = pc
       ELSE /\ frame' = [frame EXCEPT ![t] =
                  [op |-> "get_cached_lesson", package_name |-> pkg,
                   now |-> IsoFormat(clock), read_at |-> clock,
                   force_fresh |-> force_fresh]]
            /\ ret' = [ret EXCEPT ![t] = NoRet]
            /\ pc' = [pc EXCEPT ![t] = "lgc_wait"]
    /\ UNCHANGED <<quiz, progressVars, cacheVars, clock, lock, profileVars,
                   loader_lock>>

\* _run called on its own, between two facade calls
LoaderRunStart(t, pkg, force_fresh) ==
    /\ teach[t].phase = "none"
    /\ BeginLoaderRun(t, pkg, force_fresh)
    /\ UNCHANGED teach

\* LessonLoaderTool._run(package_name) called on its own ->
\* get_cached_lesson of the loader's store, up to its lock
LoaderRun(t, pkg) == LoaderRunStart(t, pkg, FALSE)

\* the results and the progress records written in the specification below
QuizArgs ==
    {[package_name |-> p, question |-> "q", user_answer |-> "a",
      correct |-> TRUE] : p \in Packages}
QuizRecords == {LearningProgress(p, "basics", TRUE, 5, 1) : p \in Packages}

\* One caller at a time of the store's operations on its four tables,
\* reading the cache through the loader's store and constructing further
\* stores on the file
NextStore ==
    \E t \in {1} :
        \/ \E rec \in QuizRecords : CallUpsertProgress(t, rec)
        \/ UpsertBody(t)
        \/ \E pkg \in {None, Some("docker")} : CallResetProgress(t, pkg)
        \/ ResetBody(t)
        \/ \E result \in QuizArgs : AddQuizResult(t, result)
        \/ CallCacheLesson(t, "docker", "lessonA", 1)
        \/ CacheLessonBody(t)
        \/ LoaderRun(t, "docker")
        \/ LoaderEnter(t)
        \/ LoaderGetCachedLessonBody(t)
        \/ CallGetStudentProfile(t)
        \/ Enter(t)
        \/ GetStudentProfileBody(t)
        \/ CreateDefaultProfileBody(t)
        \/ GetStudentProfileExit(t)
        \/ Construct(t)

SpecStore == Init /\ [][NextStore]_vars

\* One caller at a time adding quiz results and listing them, while the
\* clock advances
NextQuiz ==
    \/ Tick
    \/ \E t \in {1} :
        \/ \E result \in QuizArgs : AddQuizResult(t, result)
        \/ \E pkg \in Packages : GetQuizResults(t, pkg)

SpecQuiz == Init /\ [][NextQuiz]_vars

\* ------------------------------------------------------------ lesson loader
\* LessonLoaderTool._run returns, with the dict made of what the store
\* returned.  (cached: the store's answer, not part of the result.)
LoaderRunReturn(t) ==
    /\ pc[t] = "idle"
    /\ teach[t].phase = "none"
    /\ frame[t].op = "get_cached_lesson"
    /\ ret[t].op = "get_cached_lesson"
    /\ ret' = [ret EXCEPT ![t] = RunResult(ret[t].lesson)]
    /\ frame' = [frame EXCEPT ![t] =
          [op |-> "_run", package_name |-> frame[t].package_name,
           force_fresh |-> frame[t].force_fresh,
           read_at |-> frame[t].read_at, cached |-> ret[t].lesson]]
    /\ UNCHANGED <<quiz, progressVars, cacheVars, clock, lock, profileVars,
                   loader_lock, teach, pc>>

\* LessonLoaderTool.clear_cache(package_name): with a name, {} is written
\* over the entry with ttl_hours=0; without one, clear_expired_cache of the
\* loader's store runs.  (before: the lesson cache at the call.)
LoaderClearCache(t, pkg) ==
    /\ teach[t].phase = "none"
    /\ IF Truthy(pkg)
       THEN /\ BeginLoaderCacheLesson(t, Get(pkg), EmptyLesson, 0)
            /\ teach' = [teach EXCEPT ![t] =
                  [phase |-> "clear", package_name |-> Get(pkg),
                   before |-> cache]]
       ELSE /\ pc[t] = "idle"
            /\ LoaderCanAcquire(t)
            /\ cache' = Remaining(cache, SweptIndexes(IsoFormat(clock)), 1)
            /\ frame' = [frame EXCEPT ![t] =
                  [op |-> "clear_cache", package_name |-> pkg,
                   now |-> IsoFormat(clock), read_at |-> clock]]
            /\ ret' = [ret EXCEPT ![t] =
                  [op |-> "clear_cache",
                   count |-> Cardinality(SweptIndexes(IsoFormat(clock)))]]
            /\ UNCHANGED <<quiz, progressVars, clock, lock, profileVars,
                           loader_lock, teach, pc>>

\* clear_cache(package_name) after its write: `return 1`
LoaderClearCacheReturn(t) ==
    /\ pc[t] = "idle"
    /\ teach[t].phase = "clear"
    /\ frame' = [frame EXCEPT ![t] =
          [op |-> "clear_cache",
           package_name |-> Some(teach[t].package_name)]]
    /\ ret' = [ret EXCEPT ![t] = [op |-> "clear_cache", count |-> 1]]
    /\ teach' = [teach EXCEPT ![t] = NoTeach]
    /\ UNCHANGED <<quiz, progressVars, cacheVars, clock, lock, profileVars,
                   loader_lock, pc>>

\* FALLBACK_LESSONS: the packages a template exists for
FallbackLessons == {"docker", "git", "nginx"}

\* str.lower() of the texts used below
Lower(name) ==
    IF name = "Docker" THEN "docker" ELSE IF name = "Y" THEN "y" ELSE name

\* get_fallback_lesson: FALLBACK_LESSONS.get(package_name.lower())
GetFallbackLesson(pkg) ==
    IF Lower(pkg) \in FallbackLessons
    THEN Some(<<"template", Lower(pkg)>>) ELSE None

\* load_lesson_with_fallback(package_name): a loader is built and its _run
\* called, up to the lock of its store
LoadLessonWithFallback(t, pkg) ==
    /\ teach[t].phase = "none"
    /\ BeginLoaderRun(t, pkg, FALSE)
    /\ teach' = [teach EXCEPT ![t] =
          [phase |-> "fallback", package_name |-> pkg]]

\* load_lesson_with_fallback after _run: the cached lesson, else the
\* template, else nothing
LoadLessonReturn(t) ==
    /\ pc[t] = "idle"
    /\ teach[t].phase = "fallback"
    /\ LET result == RunResult(ret[t].lesson)
           fallback == GetFallbackLesson(teach[t].package_name)
       IN  ret' = [ret EXCEPT ![t] =
              IF result.cache_hit /\ CacheHit(result.lesson)
              THEN [op |-> "load_lesson_with_fallback", source |-> "cache",
                    lesson |-> result.lesson, needs_generation |-> FALSE]
              ELSE IF fallback # None
              THEN [op |-> "load_lesson_with_fallback",
                    source |-> "fallback_template",
                    lesson |-> fallback, needs_generation |-> FALSE]
              ELSE [op |-> "load_lesson_with_fallback", source |-> "none",
                    lesson |-> None, needs_generation |-> TRUE]]
    /\ frame' = [frame EXCEPT ![t] =
          [op |-> "load_lesson_with_fallback",
           package_name |-> teach[t].package_name,
           read_at |-> frame[t].read_at, cached |-> ret[t].lesson]]
    /\ teach' = [teach EXCEPT ![t] = NoTeach]
    /\ UNCHANGED <<quiz, progressVars, cacheVars, clock, lock, profileVars,
                   loader_lock, pc>>

\* the names load_lesson_with_fallback is called with, what the loader's
\* cache_lesson is called with, and what clear_cache is called with
LoaderNames == {"docker", "Docker", "vim"}
LoaderCalls ==
    {<<"docker", w[1], w[2]>> : w \in LoaderWrites}
      \cup {<<"vim", "lessonA", 1>>}
ClearArgs == {None, Some(""), Some("docker")}

\* One caller at a time of the loader's operations and of
\* load_lesson_with_fallback, while the clock advances
\* _run has read the store and not returned yet
RunPending(t) ==
    /\ teach[t].phase = "none"
    /\ frame[t].op = "get_cached_lesson"
    /\ "force_fresh" \in DOMAIN frame[t]

NextLoader ==
    \/ Tick
    \/ \E t \in {1} :
        \/ /\ ~RunPending(t)
           /\ \/ \E c \in LoaderCalls :
                    LoaderCacheLesson(t, c[1], c[2], c[3])
              \/ \E force_fresh \in BOOLEAN :
                    LoaderRunStart(t, "docker", force_fresh)
              \/ \E pkg \in ClearArgs : LoaderClearCache(t, pkg)
              \/ \E pkg \in LoaderNames : LoadLessonWithFallback(t, pkg)
        \/ LoaderEnter(t)
        \/ LoaderGetCachedLessonBody(t)
        \/ LoaderCacheLessonBody(t)
        \/ LoaderRunReturn(t)
        \/ LoaderClearCacheReturn(t)
        \/ LoadLessonReturn(t)

SpecLoader == Init /\ [][NextLoader]_vars

\* One caller at a time of _run with and without force_fresh, of the
\* loader's cache_lesson and of teach with force_fresh
NextFresh ==
    \E t \in {1} :
        \/ /\ ~RunPending(t)
           /\ \/ \E lesson \in {"lessonA", EmptyLesson} :
                    LoaderCacheLesson(t, "docker", lesson, 1)
              \/ \E force_fresh \in BOOLEAN :
                    LoaderRunStart(t, "docker", force_fresh)
              \/ TeachStart(t, "docker", TRUE)
        \/ LoaderEnter(t)
        \/ LoaderGetCachedLessonBody(t)
        \/ LoaderCacheLessonBody(t)
        \/ LoaderRunReturn(t)
        \/ TeachGetProfile(t)
        \/ Enter(t)
        \/ GetStudentProfileBody(t)
        \/ CreateDefaultProfileBody(t)
        \/ GetStudentProfileExit(t)
        \/ TeachGenerate(t)
        \/ TeachCacheLesson(t)
        \/ TeachUpdateProgress(t)
        \/ GetProgressBody(t)
        \/ UpsertBody(t)
        \/ TeachReturn(t)

SpecFresh == Init /\ [][NextFresh]_vars

\* ---------------------------------------------------------- tracker actions
\* ProgressTrackerTool._run: the keys of `actions`
TrackerActions ==
    {"get_progress", "get_all_progress", "mark_completed", "update_progress",
     "get_stats", "get_profile", "update_profile", "add_mastered",
     "add_weak", "reset", "get_packages"}

\* a dispatcher that takes every name for an action
IsKnownAction_Any(action) == TRUE

\* _run: `if action not in actions:` is the unknown action
IsKnownAction(action) == action \in TrackerActions

\* _run answers without calling a handler: the unknown action, or the
\* exception of the dispatch caught by `except Exception`
RunFails(t, action, error) ==
    /\ pc[t] = "idle"
    /\ ret' = [ret EXCEPT ![t] =
          [op |-> "_run", success |-> FALSE, error |-> error]]
    /\ frame' = [frame EXCEPT ![t] = [op |-> "_run", action |-> action]]
    /\ UNCHANGED <<quiz, progressVars, cacheVars, clock, lock, profileVars,
                   loader_lock, teach, pc>>

\* ProgressTrackerTool._get_progress: both names are required, then
\* get_progress of the store, up to the lock
TrackerGetProgress(t, pkg, topic) ==
    IF ~Truthy(pkg) \/ ~Truthy(topic)
    THEN /\ pc[t] = "idle"
         /\ ret' = [ret EXCEPT ![t] =
               [op |-> "get_progress", success |-> FALSE]]
         /\ frame' = [frame EXCEPT ![t] = NoFrame]
         /\ UNCHANGED <<quiz, progressVars, cacheVars, clock, lock,
                        profileVars, loader_lock, teach, pc>>
    ELSE CallGetProgress(t, Get(pkg), Get(topic))

\* ProgressTrackerTool._run(action, package_name, topic): the handler of
\* the action is called with the arguments
TrackerRun(t, action, pkg, topic) ==
    /\ teach[t].phase = "none"
    /\ IF ~IsKnownAction(action)
       THEN RunFails(t, action, "Unknown action")
       ELSE CASE action = "get_progress" -> TrackerGetProgress(t, pkg, topic)
              [] action = "mark_completed" ->
                    CallMarkCompleted(t, pkg, topic, None)
              [] action = "update_progress" ->
                    CallUpdateProgress(t, pkg, topic, None, None, None)
              [] action = "get_stats" -> GetStats(t, pkg)
              [] OTHER -> RunFails(t, action, "KeyError")

\* the actions, packages and topics _run is called with
RunActions ==
    {"get_progress", "mark_completed", "update_progress", "get_stats",
     "delete_all"}
RunPackages == {None, Some(""), Some("docker")}
RunTopics == {None, Some(""), Some("basics")}

\* One caller at a time of the tracker's _run and of the store's
\* upsert_progress
NextTracker ==
    \E t \in {1} :
        \/ \E action \in RunActions, pkg \in RunPackages, topic \in RunTopics :
              TrackerRun(t, action, pkg, topic)
        \/ \E rec \in QuizRecords : CallUpsertProgress(t, rec)
        \/ GetProgressBody(t)
        \/ UpsertBody(t)

SpecTracker == Init /\ [][NextTracker]_vars

\* ---------------------------------------------------------------- cmd_reset
\* a prompt that takes every answer for a confirmation
Confirmed_Always(confirm) == TRUE

\* cmd_reset: `if confirm.lower() != "y":` is the cancellation
Confirmed(confirm) == Lower(confirm) = "y"

\* the sentinel main and cmd_reset read as "all packages"
AllSentinel == "__all__"

\* cmd_reset: pkg = package if package != "__all__" else None
ResetScope(package) == IF package # Some(AllSentinel) THEN package ELSE None

\* cmd_reset(package), with `confirm` the answer get_user_input returned:
\* without the confirmation it returns 0; with it a SQLiteStore is built on
\* the database and its reset_progress is called, up to the lock
CmdReset(t, package, confirm) ==
    /\ pc[t] = "idle"
    /\ teach[t].phase = "none"
    /\ IF ~Confirmed(confirm)
       THEN /\ frame' = [frame EXCEPT ![t] =
                  [op |-> "cmd_reset", package |-> package,
                   confirm |-> confirm]]
            /\ ret' = [ret EXCEPT ![t] =
                  [op |-> "cmd_reset", exit_code |-> 0, cancelled |-> TRUE]]
            /\ UNCHANGED <<quiz, progressVars, cacheVars, clock, lock,
                           profileVars, loader_lock, teach, pc>>
       ELSE /\ progress' = ExecuteSchema(Database).learning_progress
            /\ frame' = [frame EXCEPT ![t] =
                  [op |-> "reset", package_name |-> ResetScope(package)]]
            /\ pc' = [pc EXCEPT ![t] = "rs_wait"]
            /\ ret' = [ret EXCEPT ![t] = NoRet]
            /\ teach' = [teach EXCEPT ![t] =
                  [phase |-> "reset", package |-> package,
                   confirm |-> confirm]]
            /\ UNCHANGED <<quiz, seq, cacheVars, clock, lock, profileVars,
                           loader_lock>>

\* cmd_reset after reset_progress returned: the count is printed and 0 is
\* returned
CmdResetReturn(t) ==
    /\ pc[t] = "idle"
    /\ teach[t].phase = "reset"
    /\ ret[t].op = "reset"
    /\ frame' = [frame EXCEPT ![t] =
          [op |-> "cmd_reset", package |-> teach[t].package,
           confirm |-> teach[t].confirm]]
    /\ ret' = [ret EXCEPT ![t] =
          [op |-> "cmd_reset", exit_code |-> 0, cancelled |-> FALSE,
           count |-> ret[t].count]]
    /\ teach' = [teach EXCEPT ![t] = NoTeach]
    /\ UNCHANGED <<quiz, progressVars, cacheVars, clock, lock, profileVars,
                   loader_lock, pc>>

\* the packages cmd_reset is called with and the answers to its prompt
CmdResetArgs == {None, Some(AllSentinel), Some("docker")}
Answers == {"y", "Y", "n", "", "yes"}

\* One caller at a time of cmd_reset and of the store's upsert_progress
NextReset ==
    \E t \in {1} :
        \/ \E rec \in QuizRecords : CallUpsertProgress(t, rec)
        \/ UpsertBody(t)
        \/ \E package \in CmdResetArgs, confirm \in Answers :
              CmdReset(t, package, confirm)
        \/ ResetBody(t)
        \/ CmdResetReturn(t)

SpecReset == Init /\ [][NextReset]_vars

\* ------------------------------------------------- style change under race
\* a thread's one call: the change of the learning style (update_profile of
\* the tracker, reached through update_learning_style) or the adding of a
\* concept, through the tracker's store
FirstStyleOrConcept(t) ==
    /\ frame[t].op = "none"
    /\ \/ AgentUpdateLearningStyle(t, "visual")
       \/ /\ teach[t].phase = "none"
          /\ \E op \in AddOps : CallAddConcept(t, op, "x")

\* Several threads, each changing the learning style or adding a concept
\* once, through one store
NextStyle ==
    \E t \in Threads :
        \/ FirstStyleOrConcept(t)
        \/ Enter(t)
        \/ GetStudentProfileBody(t)
        \/ CreateDefaultProfileBody(t)
        \/ GetStudentProfileExit(t)
        \/ AgentUpdateProfile(t)
        \/ UpdateStudentProfileBody(t)
        \/ AgentStyleReturn(t)
        \/ AddConceptSelect(t)
        \/ AddConceptReselect(t)
        \/ AddConceptWrite(t)

SpecStyle == Init /\ [][NextStyle]_vars

\* ------------------------------------------- a second store on the database
\* Every ProgressTrackerTool and LessonLoaderTool builds a SQLiteStore of its
\* own on the database file.  Below, thread 1 calls the profile operations
\* of one store (its lock is `lock`) and the other threads call
\* get_student_profile of another store, whose lock is `loader_lock`.

\* _get_connection of the other store: `with self._lock:` is entered
OtherEnter(t) ==
    /\ pc[t] \in {"gsp_wait", "cdp_wait"}
    /\ LoaderCanAcquire(t)
    /\ loader_lock' = Acquired(loader_lock, t)
    /\ pc' = [pc EXCEPT ![t] = EnteredPc(pc[t])]
    /\ UNCHANGED <<quiz, progressVars, cacheVars, clock, profileVars, lock,
                   teach, frame, ret>>

\* get_student_profile of the other store: the SELECT; the row is returned
\* and the scope left, or _create_default_profile is called inside the scope
OtherGetStudentProfileBody(t) ==
    /\ pc[t] = "gsp_in"
    /\ LET row == SelectProfile(profile)
       IN  IF NeedsDefault(row)
           THEN /\ pc' = [pc EXCEPT ![t] = "cdp_wait"]
                /\ UNCHANGED <<loader_lock, ret, frame>>
           ELSE /\ ret' = [ret EXCEPT ![t] =
                             [op |-> "get_student_profile",
                              profile |-> RowToProfile(Get(row))]]
                /\ frame' = [frame EXCEPT ![t] =
                                [op |-> "get_student_profile"]]
                /\ loader_lock' = Released(loader_lock)
                /\ pc' = [pc EXCEPT ![t] = "idle"]
    /\ UNCHANGED <<quiz, progressVars, cacheVars, clock, profileVars, lock,
                   teach>>

\* _create_default_profile of the other store under its own scope
OtherCreateDefaultProfileBody(t) ==
    /\ pc[t] = "cdp_in"
    /\ profile' = InsertDefaultProfile(profile)
    /\ loader_lock' = Released(loader_lock)
    /\ frame' = [frame EXCEPT ![t].created =
                   Some(RowToProfile(Get(SelectProfile(profile'))))]
    /\ pc' = [pc EXCEPT ![t] = "gsp_exit"]
    /\ UNCHANGED <<quiz, progressVars, cacheVars, clock, lock, teach, ret>>

\* get_student_profile of the other store returns the profile made
OtherGetStudentProfileExit(t) ==
    /\ pc[t] = "gsp_exit"
    /\ ret' = [ret EXCEPT ![t] =
                 [op |-> "get_student_profile",
                  profile |-> Get(frame[t].created)]]
    /\ frame' = [frame EXCEPT ![t] = [op |-> "get_student_profile"]]
    /\ loader_lock' = Released(loader_lock)
    /\ pc' = [pc EXCEPT ![t] = "idle"]
    /\ UNCHANGED <<quiz, progressVars, cacheVars, clock, profileVars, lock,
                   teach>>

\* Thread 1 reading the profile and adding concepts through one store while
\* the other threads read the profile through another store
NextTwoStores ==
    \/ \E t \in {1} :
          \/ CallGetStudentProfile(t)
          \/ \E op \in AddOps, c \in Concepts : CallAddConcept(t, op, c)
          \/ Enter(t)
          \/ GetStudentProfileBody(t)
          \/ CreateDefaultProfileBody(t)
          \/ GetStudentProfileExit(t)
          \/ AddConceptSelect(t)
          \/ AddConceptReselect(t)
          \/ AddConceptWrite(t)
    \/ \E t \in Threads \ {1} :
          \/ CallGetStudentProfile(t)
          \/ OtherEnter(t)
          \/ OtherGetStudentProfileBody(t)
          \/ OtherCreateDefaultProfileBody(t)
          \/ OtherGetStudentProfileExit(t)

SpecTwoStores == Init /\ [][NextTwoStores]_vars

\* ------------------------------------------- teach under a configured TTL
\* Config.from_env takes TUTOR_CACHE_TTL_HOURS as any integer, and
\* LessonLoaderTool.cache_lesson passes config.cache_ttl_hours to the store.

\* The timestamps of the model keep the fields from the day down, so the
\* last datetime there is lies in day LastDay, as datetime.max lies in the
\* year 9999; the first lies in day 1.
LastDay == 99

\* `now + timedelta(hours=ttl_hours)` raises OverflowError when the sum is
\* no datetime
Overflows(now, ttl_hours) ==
    \/ now + ttl_hours * TicksPerHour < 0
    \/ now + ttl_hours * TicksPerHour >= LastDay * 24 * TicksPerHour

ConfiguredTtls == {-1, 0, 1, DefaultCacheTtlHours, 100 * 24}

\* teach: self.loader.cache_lesson(package_name, lesson) with
\* config.cache_ttl_hours = ttl.  LessonLoaderTool.cache_lesson catches
\* every exception of the store's cache_lesson and returns False, and teach
\* does not look at what it returns.  (stored: the lesson, the TTL and the
\* time of this call, kept to the next teach.)
TeachCacheLessonConfigured(t, ttl) ==
    /\ teach[t].phase = "store"
    /\ IF Overflows(clock, ttl)
       THEN /\ pc[t] = "idle"
            /\ frame' = [frame EXCEPT ![t] = [op |-> "cache_lesson"]]
            /\ ret' = [ret EXCEPT ![t] =
                  [op |-> "cache_lesson", cached |-> FALSE]]
            /\ UNCHANGED <<quiz, progressVars, cacheVars, clock, lock,
                           profileVars, loader_lock, pc>>
       ELSE BeginLoaderCacheLesson(t, teach[t].package_name,
                                   teach[t].generated.lesson, ttl)
    /\ teach' = [teach EXCEPT ![t] =
          [phase |-> "progress", package_name |-> teach[t].package_name,
           force_fresh |-> teach[t].force_fresh, calls |-> teach[t].calls,
           generated |-> teach[t].generated,
           stored |-> [lesson |-> teach[t].generated.lesson,
                       ttl_hours |-> ttl, at |-> clock]]]

\* the last call of thread t was a teach that returned a generated lesson
PreviousGenerated(t) ==
    /\ teach[t].phase = "none"
    /\ "stored" \in DOMAIN teach[t]
    /\ teach[t].result.source = "generated"

\* the next teach(p) with force_fresh false after a teach(p) that returned
\* a generated lesson.  (last: what that teach stored.)
TeachAgain(t) ==
    /\ pc[t] = "idle"
    /\ PreviousGenerated(t)
    /\ teach' = [teach EXCEPT ![t] =
          [phase |-> "lookup", package_name |-> teach[t].package_name,
           force_fresh |-> FALSE, calls |-> 0,
           before |-> [cache |-> cache, progress |-> progress],
           last |-> teach[t].stored]]
    /\ UNCHANGED <<quiz, progressVars, cacheVars, clock, lock, profileVars,
                   loader_lock, pc, frame, ret>>

\* One thread teaching "docker" again and again while the clock advances
NextRepeat ==
    \/ Tick
    \/ \E t \in {1} :
        \/ ~PreviousGenerated(t) /\ TeachStart(t, "docker", FALSE)
        \/ TeachStart(t, "docker", TRUE)
        \/ TeachAgain(t)
        \/ TeachLoaderRun(t)
        \/ LoaderEnter(t)
        \/ LoaderGetCachedLessonBody(t)
        \/ TeachAfterLookup(t)
        \/ TeachGetProfile(t)
        \/ Enter(t)
        \/ GetStudentProfileBody(t)
        \/ CreateDefaultProfileBody(t)
        \/ GetStudentProfileExit(t)
        \/ TeachGenerate(t)
        \/ \E ttl \in ConfiguredTtls : TeachCacheLessonConfigured(t, ttl)
        \/ LoaderCacheLessonBody(t)
        \/ TeachUpdateProgress(t)
        \/ GetProgressBody(t)
        \/ UpsertBody(t)
        \/ TeachReturn(t)

SpecRepeat == Init /\ [][NextRepeat]_vars

\* ================================================================ claims
Pairs == Packages \X Topics

IsUpsertStep(t, ops) ==
    pc[t] = "up_wait" /\ frame[t].op \in ops /\ pc'[t] = "idle"

\* C1: for every (package, topic) there is at most one learning_progress
\* row, whatever sequence of upsert_progress, mark_completed,
\* update_progress and reset has run; and once an upsert of the pair has
\* returned, that single row holds the completed, score and
\* total_time_seconds of that (latest) call.
C1_OneRowLastUpsertWins ==
    /\ \A k \in Pairs : Cardinality(RowsFor(k[1], k[2])) <= 1
    /\ \A t \in Threads :
         (pc[t] = "idle" /\ frame[t].op = "upsert_progress") =>
            /\ Cardinality(RowsFor(frame[t].rec.package_name,
                                   frame[t].rec.topic)) = 1
            /\ \A r \in RowsFor(frame[t].rec.package_name, frame[t].rec.topic) :
                 /\ r.completed = frame[t].rec.completed
                 /\ r.score = frame[t].rec.score
                 /\ r.total_time_seconds = frame[t].rec.total_time_seconds

\* a second upsert of a pair, with field values different from the row's,
\* has returned
C1_Witness ==
    \E t \in Threads :
        /\ pc[t] = "idle"
        /\ frame[t].op = "upsert_progress"
        /\ ret[t].op = "upsert_progress"
        /\ ret[t].prior = "different"
        /\ Cardinality(progress) = 2

\* C3: mark_topic_completed forces completed and the score and leaves the
\* total time of an existing row as it was.
C3_MarkCompletedKeepsTotal ==
    [][\A t \in Threads :
          IsUpsertStep(t, {"mark_completed"}) =>
             \A old \in RowsFor(frame[t].rec.package_name, frame[t].rec.topic) :
               \A new \in RowsIn(progress', frame[t].rec.package_name,
                                 frame[t].rec.topic) :
                  /\ new.completed = TRUE
                  /\ new.score = frame[t].rec.score
                  /\ new.total_time_seconds = old.total_time_seconds]_vars

\* C2: concurrent update_progress calls on one pair lose no update: once
\* every thread has returned, the stored total is the initial total (0, no
\* row) plus the sum of the increments the calls reported.
RECURSIVE SumReported(_)
SumReported(T) ==
    IF T = {} THEN 0
    ELSE LET t == CHOOSE x \in T : TRUE
             inc == IF frame[t].op = "update_progress"
                       /\ frame[t].time_seconds # None
                    THEN Get(frame[t].time_seconds) ELSE 0
         IN  inc + SumReported(T \ {t})

C2_NoLostUpdate ==
    (\A t \in Threads : pc[t] = "idle" /\ frame[t].op = "update_progress") =>
        \A r \in RowsFor("docker", "basics") :
            r.total_time_seconds = SumReported(Threads)

\* C4: update_progress writes, for an argument that is not supplied, the
\* value of the row that existed before the call (False / 0.0 / 0 when
\* there was none), a supplied completed or score as given, and as total
\* the previous total plus the reported time_seconds.
C4_UpdateMerges ==
    [][\A t \in Threads :
          IsUpsertStep(t, {"update_progress"}) =>
            LET f == frame[t]
                old == RowsFor(f.package_name, f.topic)
                new == RowsIn(progress', f.package_name, f.topic)
                inc == IF f.time_seconds = None THEN 0
                       ELSE Get(f.time_seconds)
            IN  /\ new # {}
                /\ \A n \in new :
                     /\ f.completed # None => n.completed = Get(f.completed)
                     /\ f.score # None => n.score = Get(f.score)
                     /\ old = {} =>
                          /\ f.completed = None => n.completed = FALSE
                          /\ f.score = None => n.score = 0
                          /\ n.total_time_seconds = inc
                     /\ \A o \in old :
                          /\ f.completed = None => n.completed = o.completed
                          /\ f.score = None => n.score = o.score
                          /\ n.total_time_seconds
                               = o.total_time_seconds + inc]_vars

\* an update_progress without completed and score, reporting time, has
\* rewritten a completed, scored row that already had time on it
C4_Witness ==
    \E t \in Threads :
        /\ pc[t] = "idle"
        /\ frame[t].op = "update_progress"
        /\ ret[t].op = "update_progress"
        /\ frame[t].completed = None
        /\ frame[t].score = None
        /\ frame[t].time_seconds = Some(-1)
        /\ ret[t].prior = "different"
        /\ \E r \in RowsFor(frame[t].package_name, frame[t].topic) :
              r.total_time_seconds = 0 /\ r.completed /\ r.score = 5

\* C5: total_time_seconds is never negative, and no update_progress or
\* mark_completed lowers the total of an existing row.
C5_TotalNonNegativeMonotone ==
    [][/\ \A r \in progress' : r.total_time_seconds >= 0
       /\ \A t \in Threads :
            IsUpsertStep(t, {"update_progress", "mark_completed"}) =>
              \A o \in RowsFor(frame[t].rec.package_name, frame[t].rec.topic) :
                \A n \in RowsIn(progress', frame[t].rec.package_name,
                                frame[t].rec.topic) :
                   n.total_time_seconds >= o.total_time_seconds]_vars

\* C6: an upsert returns the id of the pair's row: a fresh id, above every
\* id handed out before, when the pair had no row, and the id the row
\* already had otherwise; get_progress reports a row of the table, hence
\* that same id; and no two rows share an id.
C6_StableRowId ==
    [][/\ \A r1, r2 \in progress' : r1.id = r2.id => r1 = r2
       /\ \A r \in progress' : r.id >= 1 /\ r.id <= seq'
       /\ \A t \in Threads :
            /\ IsUpsertStep(t, {"upsert_progress", "update_progress"}) =>
                 LET rec == frame[t].rec
                     old == RowsFor(rec.package_name, rec.topic)
                     new == RowsIn(progress', rec.package_name, rec.topic)
                 IN  /\ new # {}
                     /\ \A n \in new : ret'[t].row_id = n.id
                     /\ \A o \in old : ret'[t].row_id = o.id
                     /\ old = {} => ret'[t].row_id > seq
            /\ (pc[t] = "gp_wait" /\ frame[t].op = "get_progress"
                /\ pc'[t] = "idle") =>
                 /\ ret'[t].row # None =>
                      Get(ret'[t].row) \in RowsFor(frame[t].package_name,
                                                   frame[t].topic)
                 /\ ret'[t].row = None =>
                      RowsFor(frame[t].package_name, frame[t].topic) = {}]_vars

\* an upsert of a pair that already had a row has returned that row's id,
\* while the other pair holds a row of its own
C6_Witness ==
    \E t \in Threads :
        /\ pc[t] = "idle"
        /\ ret[t].op = "upsert_progress"
        /\ ret[t].prior # "inserted"
        /\ \E r \in RowsFor(frame[t].rec.package_name, frame[t].rec.topic) :
              r.id = ret[t].row_id
        /\ Cardinality({r.id : r \in progress}) = 2

IsGetCachedStep(t) == pc[t] = "gc_wait" /\ pc'[t] = "idle"

\* the instant a cache row expires: the clock value its writer took, plus
\* the ttl it was written with
ExpiryOf(row) == row.written_at + row.ttl_hours * TicksPerHour

\* C7: a lesson written with ttl_hours = 0, or with a negative ttl, is never
\* returned by a get_cached_lesson that takes the same or a later clock
\* value: the read returns None.
C7_ZeroTtlIsAbsent ==
    [][\A t \in Threads :
          IsGetCachedStep(t) =>
            \A i \in CacheIndexes(cache, frame[t].package_name) :
               (cache[i].ttl_hours <= 0
                  /\ frame[t].read_at >= cache[i].written_at) =>
                     ret'[t].lesson = None]_vars

\* a read at the very clock value of a ttl_hours = 0 write has returned None
\* while the row is in the table
C7_Witness ==
    \E t \in Threads :
        /\ pc[t] = "idle"
        /\ ret[t].op = "get_cached_lesson"
        /\ ret[t].lesson = None
        /\ \E i \in CacheIndexes(cache, frame[t].package_name) :
              /\ cache[i].ttl_hours = 0
              /\ cache[i].written_at = frame[t].read_at

\* C8: while the row written by cache_lesson(p, c, ttl) with ttl > 0 is the
\* row of p, get_cached_lesson(p) returns exactly c at every clock value
\* before creation + ttl and None at every clock value from then on.
C8_ReadUntilExpiry ==
    [][\A t \in Threads :
          IsGetCachedStep(t) =>
            \A i \in CacheIndexes(cache, frame[t].package_name) :
               cache[i].ttl_hours > 0 =>
                  IF frame[t].read_at < ExpiryOf(cache[i])
                  THEN ret'[t].lesson = Some(cache[i].lesson)
                  ELSE ret'[t].lesson = None]_vars

\* a read one tick before creation + ttl has returned the content
C8_Witness ==
    \E t \in Threads :
        /\ pc[t] = "idle"
        /\ ret[t].op = "get_cached_lesson"
        /\ \E i \in CacheIndexes(cache, frame[t].package_name) :
              /\ cache[i].ttl_hours > 0
              /\ frame[t].read_at = ExpiryOf(cache[i]) - 1
              /\ ret[t].lesson = Some(cache[i].lesson)

\* C9: clear_expired_cache returns the number of rows whose expiry is at or
\* before the clock value it took, deletes exactly those rows and leaves
\* every other row as it was; a read deletes nothing.
C9_SweepCountsExpired ==
    [][\A t \in Threads :
          /\ (pc[t] = "ce_wait" /\ pc'[t] = "idle") =>
               LET gone == {i \in 1..Len(cache) :
                              ExpiryOf(cache[i]) <= frame[t].read_at}
                   kept == (1..Len(cache)) \ gone
               IN  /\ ret'[t].count = Cardinality(gone)
                   /\ Len(cache') = Cardinality(kept)
                   /\ \A i \in kept : \E j \in 1..Len(cache') :
                                           cache'[j] = cache[i]
                   /\ \A i \in gone :
                        CacheIndexes(cache', cache[i].package_name) = {}
          /\ IsGetCachedStep(t) => cache' = cache]_vars

\* a sweep has deleted one expired row and left one unexpired row, which
\* can still be read
C9_Witness ==
    \E t \in Threads :
        /\ pc[t] = "idle"
        /\ ret[t].op = "clear_expired_cache"
        /\ ret[t].count = 1
        /\ Len(cache) = 1
        /\ ExpiryOf(cache[1]) > frame[t].read_at
        /\ SelectCached(cache[1].package_name, frame[t].now)
              = {Some(cache[1].lesson)}

\* C10: the lesson cache never holds two rows for one package, also when
\* several threads write the same package at once, and after a cache_lesson
\* the package's row has the content and the expiry of that write, whatever
\* the row held before.
C10_OneRowLatestWriteWins ==
    [][/\ \A p \in Packages : Cardinality(CacheIndexes(cache, p)) <= 1
       /\ \A p \in Packages : Cardinality(CacheIndexes(cache', p)) <= 1
       /\ \A t \in Threads :
            (pc[t] = "cl_wait" /\ pc'[t] = "idle") =>
               LET row == frame[t].row
                   at == CacheIndexes(cache', row.package_name)
               IN  /\ at # {}
                   /\ \A i \in at :
                        /\ cache'[i].content = row.content
                        /\ cache'[i].expires_at = row.expires_at
                   /\ Len(cache') = Len(cache)
                        + (IF CacheIndexes(cache, row.package_name) = {}
                           THEN 1 ELSE 0)]_vars

\* two threads have written the package; the later write, with
\* ttl_hours = 0, replaced the other thread's entry while that entry could
\* still be read, and the package now reads as absent
C10_Witness ==
    \E t, u \in Threads :
        /\ t # u
        /\ pc[t] = "idle" /\ pc[u] = "idle"
        /\ ret[t].op = "cache_lesson" /\ ret[u].op = "cache_lesson"
        /\ frame[t].row.package_name = frame[u].row.package_name
        /\ frame[t].row.ttl_hours = 0
        /\ frame[u].row.ttl_hours = 1
        /\ ExpiryOf(frame[u].row) > clock
        /\ ret[t].replaced = "unexpired"
        /\ cache = <<frame[t].row>>
        /\ SelectCached(frame[t].row.package_name, IsoFormat(clock)) = {None}

\* ------------------------------------------------------- profile claims
Mastered(row) == JsonLoads(row.mastered_concepts)
Weak(row) == JsonLoads(row.weak_concepts)

\* thread t leaves add_mastered_concept / add_weak_concept in this step
IsAddReturn(t, op) ==
    pc[t] = "ac_write" /\ pc'[t] = "idle" /\ frame[t].op = op

\* thread t returns from get_student_profile in this step
IsGetProfileReturn(t) ==
    pc[t] \in {"gsp_in", "gsp_exit"} /\ pc'[t] = "idle"

\* C11: in every reachable state no concept is in both the mastered and the
\* weak list of a profile row, whatever sequence of get_student_profile,
\* update_student_profile, add_mastered_concept and add_weak_concept ran.
C11_MasteredWeakDisjoint ==
    \A i \in 1..Len(profile) : \A c \in Concepts :
        ~(Contains(Mastered(profile[i]), c) /\ Contains(Weak(profile[i]), c))

\* C12: add_weak_concept(x) appends x to weak only if x is in neither list,
\* and an add_weak_concept(x) that follows add_mastered_concept(x) leaves x
\* in mastered and out of weak.
C12_MasteryIsSticky ==
    [][\A t \in Threads :
          IsAddReturn(t, "add_weak_concept") =>
            LET x == frame[t].concept
            IN  /\ ret'[t].changed =>
                     /\ ~Contains(Mastered(profile[1]), x)
                     /\ ~Contains(Weak(profile[1]), x)
                /\ frame[t].prev = [op |-> "add_mastered_concept",
                                    concept |-> x] =>
                     /\ Contains(Mastered(profile'[1]), x)
                     /\ ~Contains(Weak(profile'[1]), x)]_vars

C15_UpdateThenGet ==
    [][\A t \in Threads :
          (IsGetProfileReturn(t)
             /\ frame[t].prev.op = "update_student_profile") =>
            LET p == frame[t].prev.profile
                got == ret'[t].profile
            IN  /\ got.learning_style = p.learning_style
                /\ got.mastered_concepts = p.mastered_concepts
                /\ got.weak_concepts = p.weak_concepts]_vars

\* C14: with several threads making their first access at once through one
\* store, the profile table never holds more than one row, holds exactly
\* one once any of the calls has returned, and every get_student_profile
\* returns that row.
C14_SingletonUnderRace ==
    [][/\ Len(profile') <= 1
       /\ \A t \in Threads :
            /\ (pc'[t] = "idle" /\ ret'[t].op # "none") => Len(profile') = 1
            /\ IsGetProfileReturn(t) =>
                  ret'[t].profile = RowToProfile(profile'[1])]_vars

\* one thread has created the row inside get_student_profile while another
\* thread, which called before the row existed, waits for the lock
C14_Witness ==
    \E t, u \in Threads :
        /\ t # u
        /\ pc[t] = "gsp_exit"
        /\ pc[u] \in WaitPcs
        /\ Len(profile) = 1

\* C16: when the concurrent add_mastered_concept / add_weak_concept calls
\* of several threads name pairwise distinct concepts, every call that has
\* returned has its concept in the profile.
C16_NoLostConcept ==
    \A t \in Threads :
        (/\ pc[t] = "idle"
         /\ ret[t].op \in AddOps
         /\ \A u \in Threads \ {t} :
               frame[u].op \in AddOps => frame[u].concept # frame[t].concept)
        => Contains(IF ret[t].op = "add_mastered_concept"
                    THEN Mastered(profile[1]) ELSE Weak(profile[1]),
                    frame[t].concept)

\* two threads have added distinct concepts, one as mastered and one as
\* weak, and both are in the row
C16_Witness ==
    \E t, u \in Threads :
        /\ t # u
        /\ pc[t] = "idle" /\ pc[u] = "idle"
        /\ ret[t].op = "add_mastered_concept" /\ ret[t].changed
        /\ ret[u].op = "add_weak_concept" /\ ret[u].changed
        /\ frame[t].concept # frame[u].concept
        /\ Mastered(profile[1]) = <<frame[t].concept>>
        /\ Weak(profile[1]) = <<frame[u].concept>>

\* C17: at most one thread is inside a _get_connection scope of the store,
\* and that thread owns the lock.
C17_OneThreadInScope ==
    /\ Cardinality({t \in Threads : InScope(t)}) <= 1
    /\ \A t \in Threads : InScope(t) => lock.owner = t /\ lock.depth >= 1

\* a thread is inside the nested scope of _create_default_profile, holding
\* the lock twice, while another thread waits for it
C17_Witness ==
    \E t, u \in Threads :
        /\ t # u
        /\ pc[t] = "cdp_in"
        /\ lock = [owner |-> t, depth |-> 2]
        /\ pc[u] \in WaitPcs

\* C18: every operation a thread has called returns or raises, the thread
\* that holds the lock is never kept from taking it again, and the lock is
\* free whenever no thread is inside an operation.
C18_OperationsComplete ==
    /\ \A t \in Threads : (pc[t] # "idle") ~> (pc[t] = "idle")
    /\ [](\A t \in Threads :
             (pc[t] = "cdp_wait" /\ lock.owner = t) => ENABLED Enter(t))
    /\ []((\A t \in Threads : pc[t] = "idle") => lock = FreeLock)

\* one thread's operation raised inside a scope and another thread's
\* get_student_profile, which had to create the row under a nested
\* acquisition, has returned afterwards
C18_Witness ==
    \E t, u \in Threads :
        /\ t # u
        /\ pc[t] = "idle" /\ ret[t].op = "raised"
        /\ pc[u] = "idle" /\ ret[u].op = "get_student_profile"
        /\ ret[u].profile.id = Len(profile)
        /\ lock = FreeLock

\* --------------------------------------------------------- agent claims
\* C19: an operation inside a scope of the tracker's store and an operation
\* inside a scope of the loader's store never overlap.
C19_StoresShareOneLock ==
    \A t, u \in Threads : ~(InScope(t) /\ InLoaderScope(u))

\* thread t returns from teach with a lesson in this step
IsTeachLessonReturn(t) ==
    /\ teach[t].phase # "none"
    /\ teach'[t].phase = "none"
    /\ teach'[t].result.type = "lesson"

\* C20: when teach returns a lesson, from the cache or generated, a
\* learning_progress row of the package exists and get_packages_studied
\* lists the package.
C20_TeachRecordsProgress ==
    [][\A t \in Threads :
          IsTeachLessonReturn(t) =>
            /\ \E r \in progress' : r.package_name = teach[t].package_name
            /\ teach[t].package_name \in PackagesStudied(progress')]_vars

\* -------------------------------------------------------- facade claims
\* C21: when generate_lesson answers with a failure, teach returns an error
\* result and the lesson cache and the progress table are as they were when
\* teach was called; teach goes on to its writes only with a lesson that
\* was generated successfully, and the row it writes to the cache holds
\* that lesson.
C21_FailedGenerationNotCached ==
    [][\A t \in Threads :
          /\ (teach[t].phase = "generate" /\ teach'[t].phase # "generate") =>
                IF teach'[t].phase = "none"
                THEN /\ teach'[t].result.type = "error"
                     /\ cache' = teach[t].before.cache
                     /\ progress' = teach[t].before.progress
                ELSE teach'[t].generated.success
          /\ (teach[t].phase = "progress" /\ pc[t] = "lcl_in"
                /\ pc'[t] = "idle") =>
                /\ teach[t].generated.success
                /\ \E i \in DOMAIN cache' :
                      /\ cache'[i].package_name = teach[t].package_name
                      /\ JsonLoads(cache'[i].content)
                           = teach[t].generated.lesson]_vars

\* teach has returned an error after a failed generation, with a cache entry
\* and a progress row in the tables
C21_Witness ==
    \E t \in Threads :
        /\ teach[t].phase = "none"
        /\ teach[t] # NoTeach
        /\ teach[t].result.type = "error"
        /\ teach[t].calls = 1
        /\ cache # <<>>
        /\ progress # {}

\* the cache holds an entry of the package teach looked up that had not
\* expired at the clock value the lookup read
HeldAtLookup(t) ==
    \E i \in DOMAIN cache :
        /\ cache[i].package_name = teach[t].package_name
        /\ ExpiryOf(cache[i]) > frame[t].read_at

\* C22: a teach or ask call invokes the content generator at most once;
\* teach returns without invoking it exactly when force_fresh is false and
\* the cache holds an unexpired entry of the package, and a teach or ask
\* call that returns otherwise (for valid arguments) has invoked it once.
C22_GeneratorCalledOnce ==
    [][\A t \in Threads :
          /\ teach'[t] # NoTeach => teach'[t].calls <= 1
          /\ (teach[t].phase = "looked" /\ teach'[t].phase # "looked") =>
                (HeldAtLookup(t) <=>
                    /\ teach'[t].phase = "none"
                    /\ teach'[t].result.source = "cache"
                    /\ teach'[t].calls = 0)
          /\ (teach[t].phase \notin {"none", "looked"}
                /\ teach'[t].phase = "none") =>
                teach'[t].calls = 1]_vars

\* C23: a facade call with an invalid argument reaches neither the store
\* nor the generator: every progress row and every progress write under way
\* carries a valid package name, a valid topic and a score within [0, 1],
\* the profile holds a style of the enumeration, a call that goes on past
\* validation has a valid package name, and a rejected call has not invoked
\* the generator.
C23_InvalidNeverReachesStore ==
    /\ \A r \in progress :
          /\ ValidPackageName(r.package_name)
          /\ ValidTopic(r.topic)
          /\ 0 <= r.score /\ r.score <= DefaultScore
    /\ \A i \in DOMAIN profile : profile[i].learning_style \in ValidStyles
    /\ \A t \in Threads :
          /\ (pc[t] # "idle" /\ frame[t].op = "mark_completed") =>
                /\ ValidPackageName(frame[t].rec.package_name)
                /\ ValidTopic(frame[t].rec.topic)
          /\ teach[t].phase \notin {"none", "style"} =>
                ValidPackageName(teach[t].package_name)
          /\ (teach[t] # NoTeach /\ teach[t].phase = "none"
                /\ teach[t].result.type = "raised") => teach[t].calls = 0

\* C24: when the cache write or the progress update of teach has failed in
\* the store, teach ends with a failure: the step teach takes next returns
\* an error or raises.
C24_StorageErrorsSurface ==
    [][\A t \in Threads :
          (/\ teach[t].phase \in {"progress", "return"}
           /\ ret[t].op = "raised"
           /\ ret[t].from \in {"cache_lesson", "update_progress"}
           /\ teach'[t] # teach[t]) =>
             /\ teach'[t].phase = "none"
             /\ teach'[t].result.type \in {"error", "raised"}]_vars

\* C25: cmd_teach returns 1 when the lesson was not delivered because of an
\* invalid package name or a failed generation, and 0 otherwise.
C25_ExitCodeTellsFailure ==
    \A t \in Threads :
        (teach[t].phase = "none" /\ "exit_code" \in DOMAIN teach[t]) =>
           (teach[t].exit_code = 1
              <=> teach[t].result.type \in {"raised", "error"})

\* --------------------------------------------------------- store claims
\* thread t returns from reset_progress in this step
IsResetStep(t) ==
    /\ pc[t] = "rs_wait"
    /\ pc'[t] = "idle"
    /\ ret'[t].op = "reset"

\* C26: reset_progress(A) for a package name A deletes exactly the rows of
\* package A and returns their count, the rows of every other package are
\* unchanged; reset_progress() deletes every row and returns their count.
C26_ResetIsScoped ==
    [][\A t \in Threads :
          IsResetStep(t) =>
            LET pkg == frame[t].package_name
                mine == IF pkg = None THEN progress
                        ELSE {r \in progress : r.package_name = Get(pkg)}
            IN  /\ progress' = progress \ mine
                /\ ret'[t].count = Cardinality(mine)]_vars

\* C27: reset_progress, with or without a package, leaves quiz_results,
\* lesson_cache and student_profile as they are; and no operation of the
\* store removes or changes a quiz row: the rows of before are the first
\* rows of after.
C27_ResetLeavesOtherTables ==
    [][/\ \A t \in Threads :
             IsResetStep(t) =>
               quiz' = quiz /\ cache' = cache /\ profile' = profile
       /\ Len(quiz') >= Len(quiz)
       /\ SubSeq(quiz', 1, Len(quiz)) = quiz]_vars

\* a reset has deleted progress rows while the three other tables hold rows
C27_Witness ==
    \E t \in Threads :
        /\ ret[t].op = "reset"
        /\ ret[t].count > 0
        /\ progress # {}
        /\ Len(quiz) > 1
        /\ cache # <<>>
        /\ profile # <<>>

\* thread t returns the statistics of a package in this step
IsGetStatsStep(t) ==
    /\ pc[t] = "idle"
    /\ frame'[t].op = "get_stats"
    /\ ret'[t].op = "get_stats"
    /\ ret'[t].success

\* C28: get_completion_stats(package) gives the number of the package's
\* rows, the number of its completed rows (at most the total), the sum of
\* the rows' total times and the mean of their scores; for a package
\* without rows all four are 0; the tracker's completion_percentage is 0
\* for a package without rows and always within [0, 100].
C28_StatsAreTheAggregate ==
    [][\A t \in Threads :
          IsGetStatsStep(t) =>
            LET rows == {r \in progress :
                           r.package_name = Get(frame'[t].package_name)}
                n == Cardinality(rows)
                stats == ret'[t].stats
                pct == ret'[t].completion_percentage
            IN  /\ stats.total = n
                /\ stats.completed = Cardinality({r \in rows : r.completed})
                /\ stats.completed <= stats.total
                /\ stats.total_time_seconds
                     = SumFn([r \in rows |-> r.total_time_seconds], rows)
                /\ stats.avg_score.den > 0
                /\ stats.avg_score.num * (IF n = 0 THEN 1 ELSE n)
                     = SumFn([r \in rows |-> r.score], rows)
                         * stats.avg_score.den
                /\ n = 0 => stats.avg_score.num = 0 /\ pct.num = 0
                /\ pct.den > 0
                /\ 0 <= pct.num /\ pct.num <= 100 * pct.den]_vars

\* the statistics of a package with two rows, one of them completed, have
\* been returned
C28_Witness ==
    \E t \in Threads :
        /\ ret[t].op = "get_stats"
        /\ ret[t].success
        /\ ret[t].stats.total = 2
        /\ ret[t].stats.completed = 1
        /\ ret[t].stats.avg_score.num = 10
        /\ ret[t].stats.total_time_seconds = 1

\* thread t returns from get_quiz_results in this step
IsGetQuizStep(t) ==
    /\ pc[t] = "idle"
    /\ frame'[t].op = "get_quiz_results"
    /\ ret'[t].op = "get_quiz_results"
    /\ quiz' = quiz

\* C29: get_quiz_results(package) returns exactly the results added for the
\* package, and a result added later comes before every result added
\* earlier (ids are given in the order of the additions).
C29_MostRecentFirst ==
    [][\A t \in Threads :
          IsGetQuizStep(t) =>
            LET results == ret'[t].results
                mine == {i \in DOMAIN quiz :
                           quiz[i].package_name = frame'[t].package_name}
            IN  /\ Len(results) = Cardinality(mine)
                /\ {results[k] : k \in DOMAIN results}
                     = {quiz[i] : i \in mine}
                /\ \A a, b \in DOMAIN results :
                      a < b => results[a].id > results[b].id]_vars

\* thread t constructs one more SQLiteStore on the file in this step
IsConstructStep(t) ==
    /\ pc[t] = "idle"
    /\ pc'[t] = "idle"
    /\ frame'[t].op = "__init__"
    /\ ret'[t].op = "__init__"
    /\ teach' = teach
    /\ seq' = seq

\* thread t ends a read of the cache through the loader's store in this step
IsLoaderReadStep(t) ==
    /\ pc[t] = "lgc_in"
    /\ pc'[t] = "idle"

\* C30: constructing a SQLiteStore once more on a file that holds data
\* leaves every row of the four tables as it was, and the stores on the
\* file see the same data: a lesson written through one store is what a
\* later read through the loader's store returns.
C30_SchemaInitIdempotent ==
    [][\A t \in Threads :
          /\ IsConstructStep(t) =>
                /\ progress' = progress
                /\ quiz' = quiz
                /\ profile' = profile
                /\ cache' = cache
          /\ IsLoaderReadStep(t) =>
                LET rows == CacheIndexes(cache, frame[t].package_name)
                IN  IF rows = {} THEN ret'[t].lesson = None
                    ELSE \A i \in rows :
                           ret'[t].lesson = Some(cache[i].lesson)]_vars

\* a further store was constructed on a file with rows in all four tables
C30_Witness ==
    \E t \in Threads :
        /\ ret[t].op = "__init__"
        /\ progress # {}
        /\ quiz # <<>>
        /\ profile # <<>>
        /\ cache # <<>>

\* thread t returns from clear_cache(p) for a package p in this step
IsClearReturn(t) ==
    /\ teach[t].phase = "clear"
    /\ teach'[t].phase = "none"

\* thread t runs clear_cache() without a package in this step
IsSweepStep(t) ==
    /\ pc[t] = "idle"
    /\ pc'[t] = "idle"
    /\ teach[t].phase = "none"
    /\ frame'[t].op = "clear_cache"
    /\ ~Truthy(frame'[t].package_name)
    /\ ret'[t].op = "clear_cache"
    /\ clock' = clock

\* thread t returns from _run(p), called without force_fresh, in this step
IsRunReturn(t) ==
    /\ RunPending(t)
    /\ pc[t] = "idle"
    /\ frame'[t].op = "_run"
    /\ ret'[t].op = "_run"

\* the entries of the package are the ones clear_cache(p) wrote
Cleared(rows, pkg) ==
    /\ CacheIndexes(rows, pkg) # {}
    /\ \A i \in CacheIndexes(rows, pkg) :
          rows[i].lesson = EmptyLesson /\ rows[i].ttl_hours = 0

\* C31: clear_cache(p) returns the number of cache entries of p it cleared
\* (the entries p had at the call), and while the entry it wrote is in
\* place _run(p) is a cache miss; clear_cache() without a package removes
\* the expired entries, keeps the others and returns the number removed.
C31_ClearCacheCounts ==
    [][\A t \in Threads :
          /\ IsClearReturn(t) =>
                ret'[t].count
                  = Cardinality(CacheIndexes(teach[t].before,
                                             teach[t].package_name))
          /\ (IsRunReturn(t) /\ Cleared(cache, frame[t].package_name)) =>
                ~ret'[t].cache_hit
          /\ IsSweepStep(t) =>
                LET gone == {i \in 1..Len(cache) : ExpiryOf(cache[i]) <= clock}
                IN  /\ cache' = Remaining(cache, gone, 1)
                    /\ ret'[t].count = Cardinality(gone)]_vars

\* the requests _run has to reject: an action outside the fixed set, or a
\* handler's required name left out
Unacceptable(action, pkg, topic) ==
    \/ action \notin TrackerActions
    \/ /\ action \in {"get_progress", "mark_completed", "update_progress"}
       /\ (pkg = None \/ topic = None)
    \/ action = "get_stats" /\ pkg = None

\* C32: ProgressTrackerTool._run answers an unknown action with
\* success=False and an 'Unknown action' error, and get_progress,
\* mark_completed and update_progress without package_name and topic (or
\* get_stats without package_name) with success=False; in each of these
\* cases no call of the store is begun, the answer carries nothing read
\* from the store and no row is written.
C32_RejectedAtBoundary ==
    [][\A t \in Threads, action \in RunActions, pkg \in RunPackages,
          topic \in RunTopics :
          (Unacceptable(action, pkg, topic)
             /\ TrackerRun(t, action, pkg, topic)) =>
                /\ ret'[t].success = FALSE
                /\ action \notin TrackerActions =>
                      ret'[t].error = "Unknown action"
                /\ DOMAIN ret'[t] \subseteq {"op", "success", "error"}
                /\ pc'[t] = "idle"
                /\ progress' = progress
                /\ seq' = seq
                /\ lock' = lock]_vars

\* _run has rejected a request while the store holds a progress row
C32_Witness ==
    \E t \in Threads :
        /\ ret[t].op \in {"_run", "get_progress", "mark_completed",
                          "update_progress", "get_stats"}
        /\ "success" \in DOMAIN ret[t]
        /\ ~ret[t].success
        /\ progress # {}

\* thread t ends a call of teach with force_fresh in this step
IsFreshTeachEnd(t) ==
    /\ teach[t].phase \notin {"none", "clear", "fallback"}
    /\ teach'[t].phase = "none"
    /\ teach[t].force_fresh

IsCmdResetDelete(t) ==
    /\ teach[t].phase = "reset"
    /\ pc[t] = "rs_wait"
    /\ pc'[t] = "idle"

\* C34: cmd_reset whose prompt is answered with anything but 'y' or 'Y'
\* returns 0, begins no call of a store and deletes no progress row; a
\* confirmed cmd_reset deletes the rows of the named package and no others,
\* or every row when no package or the '__all__' sentinel is given.
C34_ResetNeedsConfirmation ==
    [][\A t \in Threads :
          /\ \A package \in CmdResetArgs, confirm \in Answers \ {"y", "Y"} :
                CmdReset(t, package, confirm) =>
                   /\ ret'[t].op = "cmd_reset"
                   /\ ret'[t].exit_code = 0
                   /\ pc'[t] = "idle"
                   /\ progress' = progress
                   /\ seq' = seq
                   /\ lock' = lock
          /\ IsCmdResetDelete(t) =>
                /\ teach[t].confirm \in {"y", "Y"}
                /\ progress' =
                     IF teach[t].package \in {None, Some(AllSentinel)}
                     THEN {}
                     ELSE {r \in progress :
                             r.package_name # Get(teach[t].package)}]_vars

\* a cmd_reset was cancelled while the progress table holds rows of two
\* packages, after a confirmed one had deleted rows
C34_Witness ==
    \E t \in Threads :
        /\ ret[t].op = "cmd_reset"
        /\ ret[t].cancelled
        /\ seq > Cardinality(progress)
        /\ Cardinality({r.package_name : r \in progress}) = 2

\* thread t runs the DELETE of clear_expired_cache in this step
IsSweepBody(t) ==
    /\ pc[t] = "ce_wait"
    /\ pc'[t] = "idle"

\* C35: for every cache row and every clock value a read or a sweep takes,
\* get_cached_lesson at that value returns the row's content if and only if
\* clear_expired_cache at that value would not delete the row; a sweep
\* leaves every read at its instant as it was, and leaves no row behind
\* that such a read treats as expired.
C35_LazyExpiryMatchesSweep ==
    [][\A t \in Threads :
          /\ IsGetCachedStep(t) =>
                \A i \in CacheIndexes(cache, frame[t].package_name) :
                   (ret'[t].lesson = Some(JsonLoads(cache[i].content)))
                     <=> (i \notin SweptIndexes(frame[t].now))
          /\ IsSweepBody(t) =>
                /\ \A i \in DOMAIN cache :
                      (Some(JsonLoads(cache[i].content))
                          \in SelectCached(cache[i].package_name,
                                           frame[t].now))
                        <=> (\E j \in DOMAIN cache' : cache'[j] = cache[i])
                /\ \A pkg \in Packages :
                      SelectCached(pkg, frame[t].now)'
                         = SelectCached(pkg, frame[t].now)
                /\ (\A j \in DOMAIN cache :
                      Some(JsonLoads(cache[j].content))
                         \in SelectCached(cache[j].package_name,
                                          frame[t].now))']_vars

\* a read at the very instant a row expires has returned nothing, and the
\* row is still in the table
C35_Witness ==
    \E t \in Threads, i \in DOMAIN cache :
        /\ pc[t] = "idle"
        /\ frame[t].op = "get_cached_lesson"
        /\ ret[t].op = "get_cached_lesson"
        /\ cache[i].package_name = frame[t].package_name
        /\ cache[i].ttl_hours = 1
        /\ cache[i].expires_at = frame[t].now
        /\ ret[t].lesson = None

\* thread t has returned from its change of the learning style
StyleChanged(t) ==
    /\ pc[t] = "idle"
    /\ teach[t].phase = "none"
    /\ ret[t].op = "update_student_profile"

\* C36: when one thread has changed the learning style through
\* update_profile and another has added the concept x as mastered or as
\* weak through the same store, and both calls have returned, x is in the
\* list it was added to and the learning style is the new one.
C36_StyleChangeKeepsConcepts ==
    \A t, u \in Threads :
        (/\ StyleChanged(t)
         /\ pc[u] = "idle"
         /\ ret[u].op \in AddOps)
        => /\ Len(profile) = 1
           /\ profile[1].learning_style = "visual"
           /\ Contains(IF ret[u].op = "add_mastered_concept"
                       THEN Mastered(profile[1]) ELSE Weak(profile[1]),
                       frame[u].concept)

\* C37: when threads make their first accesses to the profile at once
\* through distinct SQLiteStore instances on one database file, the
\* student_profile table never holds more than one row.
C37_SingletonAcrossStores == Len(profile) <= 1

\* The unexpired entries the store holds for the package that a _run of
\* thread t read at frame[t].read_at
HeldFor(t) ==
    {i \in CacheIndexes(cache, frame[t].package_name) :
        ExpiryOf(cache[i]) > frame[t].read_at}

IsLoadReturn(t) == teach[t].phase = "fallback" /\ teach'[t].phase = "none"

\* C38: _run(p) with force_fresh false reports cache_hit with the stored
\* lesson exactly when the store holds an unexpired entry for p, whatever
\* content was cached (an empty lesson dict included);
\* load_lesson_with_fallback answers source 'cache' in exactly those cases,
\* otherwise 'fallback_template' when a template exists for the lower-cased
\* name, otherwise 'none' with needs_generation.
C38_HitIffUnexpired ==
    [][\A t \in Threads :
          /\ (IsRunReturn(t) /\ ~frame[t].force_fresh) =>
                /\ ret'[t].cache_hit <=> HeldFor(t) # {}
                /\ ret'[t].cache_hit =>
                      \E i \in HeldFor(t) :
                         ret'[t].lesson = Some(JsonLoads(cache[i].content))
          /\ IsLoadReturn(t) =>
                /\ ret'[t].source = "cache" <=> HeldFor(t) # {}
                /\ ret'[t].source = "cache" =>
                      \E i \in HeldFor(t) :
                         ret'[t].lesson = Some(JsonLoads(cache[i].content))
                /\ ret'[t].source = "fallback_template" <=>
                      /\ HeldFor(t) = {}
                      /\ Lower(teach[t].package_name) \in FallbackLessons
                /\ ret'[t].source = "none" <=>
                      /\ HeldFor(t) = {}
                      /\ Lower(teach[t].package_name) \notin FallbackLessons
                /\ ret'[t].needs_generation <=> ret'[t].source = "none"]_vars

\* the lookup of a teach that follows a teach with a generated lesson is
\* answered
IsRepeatLookupEnd(t) ==
    /\ teach[t].phase = "looked"
    /\ "last" \in DOMAIN teach[t]
    /\ teach'[t].phase # "looked"

\* the configured TTL has not elapsed at the lookup since the lesson was
\* stored
BeforeTtl(t) ==
    frame[t].read_at <
        teach[t].last.at + teach[t].last.ttl_hours * TicksPerHour

\* C39: after a teach(p) that returned a generated lesson L, the next
\* teach(p) with force_fresh false, issued before the configured TTL has
\* elapsed and with no cache write or clear for p in between, returns
\* source 'cache' with content L and does not call the generator, for
\* every configured cache_ttl_hours.
C39_RepeatTeachFromCache ==
    [][\A t \in Threads :
          (IsRepeatLookupEnd(t) /\ BeforeTtl(t)) =>
              /\ teach'[t].phase = "none"
              /\ teach'[t].result.source = "cache"
              /\ teach'[t].result.content = teach[t].last.lesson
              /\ teach'[t].calls = 0]_vars

====
